---- MODULE Spec2Model ----
(***************************************************************************)
(* Verification model of smpc (Norgate-AV/smpc): the window monitor, the   *)
(* event channel with its replay cache, WaitOnMonitor, the compile         *)
(* orchestrators and the command's cleanup path.                           *)
(***************************************************************************)
EXTENDS Naturals, Integers, Sequences, FiniteSets, TLC

(***************************************************************************)
(* Bounds of the model                                                     *)
(***************************************************************************)
\* number of window handles the environment of SpecBus may show
MaxHwnd == 3
\* capacity of MonitorCh in the model (the code makes it with 64 slots)
ChanCap == 2
\* length the replay cache is trimmed to in the model (the code keeps 256)
CacheCap == 2
\* number of dialogs the application shows in one run of the command
MaxShown == 2

(***************************************************************************)
(* Windows of the environment: a handle has a fixed title and owner        *)
(***************************************************************************)
TargetPid  == 1
ForeignPid == 2

AllHwnds == 1..10

TitleOf(h) ==
    CASE h = 1  -> "Compile Complete"
      [] h = 2  -> "Confirmation"
      [] h = 3  -> "Confirmation"
      [] h = 4  -> "Compiling..."
      [] h = 5  -> "Operation Complete"
      [] h = 6  -> "Incomplete Symbols"
      [] h = 7  -> "Convert/Compile"
      [] h = 8  -> "Commented out Symbols and/or Devices"
      [] h = 9  -> "Program Compilation"
      [] OTHER  -> "SIMPL Windows - demo.smw"

\* window 2 belongs to another process, every other window to smpwin.exe
PidOf(h) == IF h = 2 THEN ForeignPid ELSE TargetPid

\* WindowInfo as EnumerateWindows reports it, WindowEvent as the monitor emits it
WindowEvent(h) == [Hwnd |-> h, Title |-> TitleOf(h), Pid |-> PidOf(h)]

NoEvent == [Hwnd |-> 0, Title |-> "", Pid |-> 0]

(***************************************************************************)
(* Title predicates.  strings.ToLower and strings.Contains are tabulated   *)
(* over the titles of the environment.                                     *)
(***************************************************************************)
ToLower(t) ==
    CASE t = "Compile Complete"    -> "compile complete"
      [] t = "Confirmation"        -> "confirmation"
      [] t = "Compiling..."        -> "compiling..."
      [] t = "SIMPL Windows - demo.smw" -> "simpl windows - demo.smw"
      [] t = "Operation Complete"  -> "operation complete"
      [] t = "Incomplete Symbols"  -> "incomplete symbols"
      [] t = "Convert/Compile"     -> "convert/compile"
      [] t = "Commented out Symbols and/or Devices"
                                   -> "commented out symbols and/or devices"
      [] t = "Program Compilation" -> "program compilation"
      [] OTHER                     -> t

\* strings.EqualFold(a, b)
EqualFold(a, b) == ToLower(a) = ToLower(b)

\* strings.Contains(lower, sub) for the substrings the dialog handlers use
Contains(lower, sub) ==
    \/ lower = sub
    \/ sub = "incomplete"    /\ lower = "incomplete symbols"
    \/ sub = "compiling"     /\ lower = "compiling..."
    \/ sub = "commented out" /\ lower = "commented out symbols and/or devices"

\* A matcher set of WaitOnMonitor: the title compared with EqualFold and the
\* substring searched in the lower-cased title ("" when there is no second matcher)
Matcher(title, sub) == [exact |-> title, sub |-> sub]

Matches(m, ev) ==
    \/ EqualFold(ev.Title, m.exact)
    \/ m.sub # "" /\ Contains(ToLower(ev.Title), m.sub)

VARIABLES
    visible,        \* handles of the visible top-level windows
    MonitorCh,      \* the buffered channel of WindowEvent
    chInit,         \* MonitorCh != nil
    recentEvents,   \* the replay cache
    recentMu,       \* holder of the mutex of the replay cache ("free" when unlocked)
    seen,           \* the monitor's seen map
    monPid,         \* pid the monitor filters on (0: all processes)
    mPc,            \* monitor: "off", "sleep", "scan", "append", "send"
    mSnap,          \* monitor: windows of this tick still to be visited
    mEv,            \* monitor: the event being emitted
    appended,       \* per handle, number of events appended to the cache
    pushed,         \* per handle, number of events pushed on MonitorCh
    wPc,            \* waiter: "idle", "scan", "block", "ret"
    wMatch,         \* waiter: matcher set of the current call
    wRet,           \* waiter: [found, ev] returned by the last call
    variant,        \* which historical form of the command runs
    procAlive,      \* smpwin.exe is running
    shown,          \* handles of the windows the application has created
    closeReqs,      \* handles CloseWindow was called on, in call order
    ctx,            \* Execute: its position and the ExecutionContext
    comp,           \* Compile: its position, locals and return values
    sig             \* the interrupt handler: its position and its ForceCleanup

busVars == <<visible, MonitorCh, chInit, recentEvents, recentMu, seen, monPid, mPc, mSnap,
             mEv, appended, pushed, wPc, wMatch, wRet>>

orchVars == <<variant, sig, procAlive, shown, closeReqs, ctx, comp>>

vars == <<busVars, orchVars>>

(***************************************************************************)
(* The monitor goroutine (StartWindowMonitor)                              *)
(***************************************************************************)
\* a cache that, once full, drops the event it is given
AppendRecentKeepsOldest(cache, ev) ==
    IF Len(cache) < CacheCap THEN Append(cache, ev) ELSE cache

\* recentEvents = append(recentEvents, ev), trimmed to the newest CacheCap
AppendRecent(cache, ev) ==
    LET c == Append(cache, ev)
    IN  IF Len(c) > CacheCap THEN SubSeq(c, Len(c) - CacheCap + 1, Len(c)) ELSE c

\* a monitor that forgets to record the handle
MarkSeenForgets(s, h) == s

\* seen[w.Hwnd] = true
MarkSeen(s, h) == s \cup {h}

\* windows of an enumeration the loop body emits an event for
Unseen(ws, s, pid) == {h \in ws : (pid = 0 \/ PidOf(h) = pid) /\ h \notin s}

\* The monitor that Client.StartMonitoring starts is handed the context and
\* ends when it is cancelled; the one that StartMonitoring(ctx) starts for
\* the older Execute is StartWindowMonitor(pid, interval), which has none.
StopsOnCancel(v) == v \in {"dialog", "event"}

MonRuns == ~(ctx.cancelled /\ StopsOnCancel(variant))

\* windows := EnumerateWindows(), at the top of the monitor's loop.  An
\* iteration that finds no new window runs through its range without effect
\* and ends in the Sleep.
MonTick ==
    /\ mPc = "sleep"
    /\ MonRuns
    /\ IF Unseen(visible, seen, monPid) = {}
       THEN UNCHANGED <<mSnap, mPc>>
       ELSE mSnap' = visible /\ mPc' = "scan"
    /\ UNCHANGED <<visible, MonitorCh, chInit, recentEvents, recentMu, seen, monPid, mEv,
                   appended, pushed, wPc, wMatch, wRet>>
    /\ UNCHANGED orchVars

\* for _, w := range windows: skip filtered and seen windows, mark the next
\* new one seen and, when the channel exists, make its event;
\* time.Sleep(interval) when the range is exhausted
MonScan ==
    /\ mPc = "scan"
    /\ MonRuns
    /\ LET new == Unseen(mSnap, seen, monPid)
       IN  IF new = {}
           THEN /\ mPc' = "sleep"
                /\ mSnap' = {}
                /\ UNCHANGED <<seen, mEv>>
           ELSE \E h \in new :
                /\ seen' = MarkSeen(seen, h)
                /\ mSnap' = mSnap \ {h}
                /\ IF chInit
                   THEN mEv' = WindowEvent(h) /\ mPc' = "append"
                   ELSE mEv' = NoEvent /\ mPc' = "scan"
    /\ UNCHANGED <<visible, MonitorCh, chInit, recentEvents, recentMu, monPid,
                   appended, pushed, wPc, wMatch, wRet>>
    /\ UNCHANGED orchVars

\* recentMu.Lock(); append and trim; recentMu.Unlock()
MonAppend ==
    /\ mPc = "append"
    /\ MonRuns
    /\ recentEvents' = AppendRecent(recentEvents, mEv)
    /\ appended' = [appended EXCEPT ![mEv.Hwnd] = @ + 1]
    /\ mPc' = "send"
    /\ UNCHANGED <<visible, MonitorCh, chInit, recentMu, seen, monPid, mSnap, mEv,
                   pushed, wPc, wMatch, wRet>>
    /\ UNCHANGED orchVars

\* a send that puts the event on the channel twice when there is room
TrySendTwice(ch, ev) ==
    IF Len(ch) + 2 <= ChanCap THEN ch \o <<ev, ev>>
    ELSE IF Len(ch) < ChanCap THEN Append(ch, ev) ELSE ch

\* select { case MonitorCh <- ev: default: }
TrySend(ch, ev) == IF Len(ch) < ChanCap THEN Append(ch, ev) ELSE ch

\* a monitor that sends with a plain, blocking channel send
MonSendBlocking ==
    /\ mPc = "send"
    /\ Len(MonitorCh) < ChanCap
    /\ MonitorCh' = Append(MonitorCh, mEv)
    /\ pushed' = [pushed EXCEPT ![mEv.Hwnd] = @ + 1]
    /\ mPc' = "scan"
    /\ mEv' = NoEvent
    /\ UNCHANGED <<visible, chInit, recentEvents, recentMu, seen, monPid, mSnap,
                   appended, wPc, wMatch, wRet>>
    /\ UNCHANGED orchVars

MonSend ==
    /\ mPc = "send"
    /\ MonRuns
    /\ MonitorCh' = TrySend(MonitorCh, mEv)
    /\ pushed' = IF MonitorCh' # MonitorCh
                 THEN [pushed EXCEPT ![mEv.Hwnd] = @ + 1] ELSE pushed
    /\ mPc' = "scan"
    /\ mEv' = NoEvent
    /\ UNCHANGED <<visible, chInit, recentEvents, recentMu, seen, monPid, mSnap,
                   appended, wPc, wMatch, wRet>>
    /\ UNCHANGED orchVars

(***************************************************************************)
(* StartMonitoring: resolve the pid (0 when smpwin.exe is not found in     *)
(* time), make the channel, start the monitor                              *)
(***************************************************************************)
MonStart ==
    /\ mPc = "off"
    /\ ~ctx.cancelled
    /\ \E p \in {0, TargetPid} : monPid' = p
    /\ chInit' = TRUE
    /\ mPc' = "sleep"
    /\ UNCHANGED <<visible, MonitorCh, recentEvents, recentMu, seen, mSnap, mEv,
                   appended, pushed, wPc, wMatch, wRet>>
    /\ UNCHANGED orchVars

\* case <-ctx.Done(): return, in the loop that looks for the pid: the
\* channel is not made and no monitor is started
MonCancelled ==
    /\ mPc = "off"
    /\ ctx.cancelled
    /\ mPc' = "stopped"
    /\ UNCHANGED <<visible, MonitorCh, chInit, recentEvents, recentMu, seen, monPid, mSnap,
                   mEv, appended, pushed, wPc, wMatch, wRet>>
    /\ UNCHANGED orchVars

(***************************************************************************)
(* WaitOnMonitor(timeout, matchers...)                                     *)
(***************************************************************************)
\* a scan that walks the cache from the oldest entry up
RECURSIVE ScanOldestFirst(_, _, _)
ScanOldestFirst(cache, m, i) ==
    IF i < 1 THEN NoEvent
    ELSE IF Matches(m, cache[Len(cache) - i + 1]) THEN cache[Len(cache) - i + 1]
    ELSE ScanOldestFirst(cache, m, i - 1)

\* for i := len(recentEvents) - 1; i >= 0; i-- : the first entry, from the
\* newest down, that a matcher accepts; NoEvent when the loop finds none
RECURSIVE ScanRecent(_, _, _)
ScanRecent(cache, m, i) ==
    IF i < 1 THEN NoEvent
    ELSE IF Matches(m, cache[i]) THEN cache[i]
    ELSE ScanRecent(cache, m, i - 1)

\* entry of the call: if MonitorCh == nil { return WindowEvent{}, false }
WaitEnter(m) ==
    /\ wPc = "idle"
    /\ wMatch' = m
    /\ IF chInit
       THEN wPc' = "scan" /\ wRet' = [found |-> FALSE, ev |-> NoEvent]
       ELSE wPc' = "ret"  /\ wRet' = [found |-> FALSE, ev |-> NoEvent]

\* the scan of the replay cache under recentMu; the timer is armed only
\* when the scan finds nothing
WaitScanStep ==
    /\ wPc = "scan"
    /\ LET ev == ScanRecent(recentEvents, wMatch, Len(recentEvents))
       IN  IF ev # NoEvent
           THEN wPc' = "ret" /\ wRet' = [found |-> TRUE, ev |-> ev]
           ELSE wPc' = "block" /\ UNCHANGED wRet
    /\ UNCHANGED wMatch

\* a receive that gives up at the first event that matches no predicate
WaitRecvNoSkip ==
    /\ wPc = "block"
    /\ Len(MonitorCh) > 0
    /\ MonitorCh' = Tail(MonitorCh)
    /\ wPc' = "ret"
    /\ wRet' = IF Matches(wMatch, Head(MonitorCh))
               THEN [found |-> TRUE, ev |-> Head(MonitorCh)]
               ELSE [found |-> FALSE, ev |-> NoEvent]
    /\ UNCHANGED wMatch

\* case ev := <-MonitorCh
WaitRecvStep ==
    /\ wPc = "block"
    /\ Len(MonitorCh) > 0
    /\ MonitorCh' = Tail(MonitorCh)
    /\ IF Matches(wMatch, Head(MonitorCh))
       THEN wPc' = "ret" /\ wRet' = [found |-> TRUE, ev |-> Head(MonitorCh)]
       ELSE UNCHANGED <<wPc, wRet>>
    /\ UNCHANGED wMatch

\* a timer that every delivery re-arms: it fires only on an empty channel
WaitTimeoutRearmed ==
    /\ wPc = "block"
    /\ Len(MonitorCh) = 0
    /\ wPc' = "ret"
    /\ wRet' = [found |-> FALSE, ev |-> NoEvent]
    /\ UNCHANGED wMatch

\* case <-timer.C
WaitTimeoutStep ==
    /\ wPc = "block"
    /\ wPc' = "ret"
    /\ wRet' = [found |-> FALSE, ev |-> NoEvent]
    /\ UNCHANGED wMatch

WaitScan ==
    /\ WaitScanStep
    /\ UNCHANGED <<visible, MonitorCh, chInit, recentEvents, recentMu, seen, monPid, mPc,
                   mSnap, mEv, appended, pushed>>
    /\ UNCHANGED orchVars

WaitRecv ==
    /\ WaitRecvStep
    /\ UNCHANGED <<visible, chInit, recentEvents, recentMu, seen, monPid, mPc,
                   mSnap, mEv, appended, pushed>>
    /\ UNCHANGED orchVars

WaitTimeout ==
    /\ WaitTimeoutStep
    /\ UNCHANGED <<visible, MonitorCh, chInit, recentEvents, recentMu, seen, monPid, mPc,
                   mSnap, mEv, appended, pushed>>
    /\ UNCHANGED orchVars

(***************************************************************************)
(* Environment: windows come and go                                        *)
(***************************************************************************)
BusHwnds == 1..MaxHwnd

ShowWindow(h) ==
    /\ h \notin visible
    /\ visible' = visible \cup {h}
    /\ UNCHANGED <<MonitorCh, chInit, recentEvents, recentMu, seen, monPid, mPc, mSnap,
                   mEv, appended, pushed, wPc, wMatch, wRet>>
    /\ UNCHANGED orchVars

HideWindow(h) ==
    /\ h \in visible
    /\ visible' = visible \ {h}
    /\ UNCHANGED <<MonitorCh, chInit, recentEvents, recentMu, seen, monPid, mPc, mSnap,
                   mEv, appended, pushed, wPc, wMatch, wRet>>
    /\ UNCHANGED orchVars

(***************************************************************************)
(* Values of the command and of the orchestrator                           *)
(***************************************************************************)
\* "dialog": Execute of cmd/root.go around Compiler.Compile with the
\*           DialogHandler (one wait per dialog)
\* "event":  Execute of cmd/root.go around Compiler.Compile with
\*           handleCompilationEvents (one loop over MonitorCh)
\* "deps":   the older Execute around CompileWithDeps and the DialogHandler
\*           that takes the pid
Variants == {"dialog", "event", "deps"}

\* the main window of SIMPL Windows (its title holds ".smw")
MainHwnd == 10

\* an error value: the format string and its %d argument; NoErr is nil
Err(msg, n) == [msg |-> msg, n |-> n]

NoErr == Err("", 0)

ErrIncompleteSymbols ==
    Err("program contains incomplete symbols and cannot be compiled", 0)

ErrCompileTimeout ==
    Err("compilation timeout: did not detect 'Compile Complete' dialog within 5 minutes", 0)

ErrForeground ==
    Err("failed to bring SIMPL Windows to foreground - cannot send keystrokes", 0)

ErrWrongWindow ==
    Err("wrong window in foreground - cannot safely send keystrokes", 0)

ErrKeystroke == Err("failed to send compile keystroke", 0)

ErrCompileFailed(n) == Err("compilation failed with %d error(s)", n)

ErrAppear == Err("timed out waiting for SIMPL Windows window to appear", 0)

ErrNotResponding == Err("window appeared but is not responding properly", 0)

ErrOpen == Err("error opening file: %w", 0)

\* &CompileResult{}
EmptyResult ==
    [Warnings |-> 0, Notices |-> 0, Errors |-> 0,
     ErrorMessages |-> <<>>, WarningMessages |-> <<>>, NoticeMessages |-> <<>>,
     HasErrors |-> FALSE]

\* a *CompileResult: <<>> is nil, <<r>> points to r
Nil == <<>>

Ptr(r) == <<r>>

\* a return that hands the working result back with the error
ReturnKeepsResult(r, err) == [result |-> Ptr(r), err |-> err]

\* return nil, err
ReturnFatal(r, err) == [result |-> Nil, err |-> err]

\* return result, fmt.Errorf(...) / return result, nil
ReturnResult(r) ==
    IF r.HasErrors
    THEN [result |-> Ptr(r), err |-> ErrCompileFailed(r.Errors)]
    ELSE [result |-> Ptr(r), err |-> NoErr]

NotReturned == [result |-> Nil, err |-> NoErr]

\* statistics the Compile Complete dialog can show (warnings, notices, errors)
CCStats ==
    { [w |-> 0, n |-> 0, e |-> 0],
      [w |-> 1, n |-> 0, e |-> 0],
      [w |-> 0, n |-> 1, e |-> 1],
      [w |-> 0, n |-> 0, e |-> 2] }

NoStats == [w |-> 0, n |-> 0, e |-> 0]

\* items the list box of the Program Compilation dialog can hold
ListBoxes ==
    { <<>>,
      <<"WARNING: bar">>,
      <<"ERROR: foo", "cont of foo", "WARNING: bar">>,
      <<"Error undefined signal", "NOTICE baz", "cont of baz">>,
      <<"cont of foo", "NOTICE baz", "cont of baz">> }

\* strings.ToUpper(line) has this leading token ("" when it has none)
Token(line) ==
    CASE line = "ERROR: foo"             -> "ERROR"
      [] line = "Error undefined signal" -> "ERROR"
      [] line = "WARNING: bar"           -> "WARNING"
      [] line = "NOTICE baz"             -> "NOTICE"
      [] OTHER                           -> ""

\* the character that follows the leading token
AfterToken(line) ==
    CASE line = "ERROR: foo"             -> ":"
      [] line = "Error undefined signal" -> " "
      [] line = "WARNING: bar"           -> ":"
      [] line = "NOTICE baz"             -> " "
      [] OTHER                           -> ""

\* strings.HasPrefix(lineUpper, tok)
HasPrefix(line, tok) == Token(line) = tok

\* strings.HasPrefix(lineUpper, tok+"\t") || strings.HasPrefix(lineUpper, tok+" ")
HasPrefixSep(line, tok) == Token(line) = tok /\ AfterToken(line) \in {" ", "\t"}

\* s[len(s)-1] += " " + line
AppendToLast(s, line) == [s EXCEPT ![Len(s)] = @ \o " " \o line]

NoMessages == [errors |-> <<>>, warnings |-> <<>>, notices |-> <<>>, lastType |-> ""]

\* categorizeMessage / appendContinuation, and the same loop of
\* DialogHandler.ParseProgramCompilation(pid)
CategorizeMessage(m, line) ==
    CASE HasPrefix(line, "ERROR")   -> [m EXCEPT !.errors = Append(@, line)]
      [] HasPrefix(line, "WARNING") -> [m EXCEPT !.warnings = Append(@, line)]
      [] HasPrefix(line, "NOTICE")  -> [m EXCEPT !.notices = Append(@, line)]
      [] OTHER ->
            IF Len(m.errors) > 0 THEN [m EXCEPT !.errors = AppendToLast(@, line)]
            ELSE IF Len(m.warnings) > 0 THEN [m EXCEPT !.warnings = AppendToLast(@, line)]
            ELSE IF Len(m.notices) > 0 THEN [m EXCEPT !.notices = AppendToLast(@, line)]
            ELSE m

\* the loop body of Compiler.parseDetailedMessages
DetailedMessage(m, line) ==
    CASE HasPrefixSep(line, "ERROR") ->
            [m EXCEPT !.errors = Append(@, line), !.lastType = "ERROR"]
      [] HasPrefixSep(line, "WARNING") ->
            [m EXCEPT !.warnings = Append(@, line), !.lastType = "WARNING"]
      [] HasPrefixSep(line, "NOTICE") ->
            [m EXCEPT !.notices = Append(@, line), !.lastType = "NOTICE"]
      [] OTHER ->
            CASE m.lastType = "ERROR" /\ Len(m.errors) > 0 ->
                    [m EXCEPT !.errors = AppendToLast(@, line)]
              [] m.lastType = "WARNING" /\ Len(m.warnings) > 0 ->
                    [m EXCEPT !.warnings = AppendToLast(@, line)]
              [] m.lastType = "NOTICE" /\ Len(m.notices) > 0 ->
                    [m EXCEPT !.notices = AppendToLast(@, line)]
              [] OTHER -> m

\* for _, line := range ci.Items, in the form of the variant
RECURSIVE ParseItems(_, _, _)
ParseItems(v, items, m) ==
    IF items = <<>> THEN m
    ELSE ParseItems(v, Tail(items),
                    IF v = "event" THEN DetailedMessage(m, Head(items))
                    ELSE CategorizeMessage(m, Head(items)))

\* the matchers a dialog step hands to WaitOnMonitor: the DialogHandler of
\* "dialog" compares the title with EqualFold only, the one of "deps" adds a
\* strings.Contains matcher on the lower-cased title
StepTitle(step) ==
    CASE step = "OperationComplete"   -> "Operation Complete"
      [] step = "IncompleteSymbols"   -> "Incomplete Symbols"
      [] step = "ConvertCompile"      -> "Convert/Compile"
      [] step = "CommentedOutSymbols" -> "Commented out Symbols and/or Devices"
      [] step = "Compiling"           -> "Compiling..."
      [] step = "CompileComplete"     -> "Compile Complete"
      [] step = "ProgramCompilation"  -> "Program Compilation"
      [] OTHER                        -> "Confirmation"

StepSubstring(step) ==
    CASE step = "IncompleteSymbols"   -> "incomplete"
      [] step = "CommentedOutSymbols" -> "commented out"
      [] step = "Compiling"           -> "compiling"
      [] OTHER                        -> ToLower(StepTitle(step))

StepMatcher(v, step) ==
    IF v = "deps" THEN Matcher(StepTitle(step), StepSubstring(step))
    ELSE Matcher(StepTitle(step), "")

WaitSteps ==
    {"OperationComplete", "IncompleteSymbols", "ConvertCompile",
     "CommentedOutSymbols", "Compiling", "CompileComplete",
     "ProgramCompilation", "Confirmation"}

\* the handlers of setupSignalHandlers before an interrupt: the arguments
\* of their ForceCleanup call, what the call did (close request posted,
\* what the verification found, how the pid to terminate was obtained) and
\* the exit status
IdleSig ==
    [pc |-> "idle", hwnd |-> 0, pid |-> 0, closed |-> FALSE, check |-> "none",
     killBy |-> "none", steps |-> 0, code |-> 0]

\* Execute before it runs
IdleCtx ==
    [pc |-> "launch", hwnd |-> 0, simplHwnd |-> 0, simplPid |-> 0,
     launched |-> FALSE, cleanups |-> 0, err |-> NoErr, cancelled |-> FALSE]

\* Compile before it is called; items is what the list box of the Program
\* Compilation dialog held when it was read, confirm what was done to a
\* Confirmation dialog ("click": the button was found and clicked, "close")
IdleComp ==
    [pc |-> "idle", pid |-> 0, steps |-> <<>>,
     keys |-> [primary |-> "none", secondary |-> "none"],
     counts |-> NoStats, result |-> EmptyResult, ret |-> NotReturned,
     compileCompleteHwnd |-> 0, compilingDetected |-> FALSE,
     compileCompleteDetected |-> FALSE, programCompHwnd |-> 0,
     verifies |-> 0, verified |-> FALSE, items |-> <<>>, confirm |-> "none",
     recompileAll |-> FALSE, sent |-> {}]

(***************************************************************************)
(* Window and process calls                                                *)
(***************************************************************************)
monFrame == <<chInit, recentEvents, recentMu, seen, monPid, mPc, mSnap, mEv, appended, pushed>>

waitFrame == <<wPc, wMatch, wRet>>

\* windows left once smpwin.exe is terminated
AfterTerminate(ws) == {h \in ws : PidOf(h) # TargetPid}

\* Client.FindWindow(0, false): the main window of a running smpwin.exe
FindWindow(ws, alive) == IF alive /\ MainHwnd \in ws THEN MainHwnd ELSE 0

\* findProcessByName("smpwin.exe")
GetPid(alive) == IF alive THEN {0, TargetPid} ELSE {0}

(***************************************************************************)
(* Execute.  The state after construction is the one in which the monitor  *)
(* goroutine has been started and the application is about to be launched. *)
(***************************************************************************)
\* ShellExecuteEx / ShellExecute: the application starts, or the call fails
\* and Execute returns the error; the older Execute then looks the pid up
LaunchSIMPLWindows ==
    /\ ctx.pc = "launch"
    /\ \E ok \in BOOLEAN :
         IF ok
         THEN /\ procAlive' = TRUE
              /\ \E p \in (IF variant = "deps" THEN {0, TargetPid} ELSE {TargetPid}) :
                   ctx' = [ctx EXCEPT !.pc = "appear", !.launched = TRUE,
                                      !.simplPid = p]
         ELSE /\ ctx' = [ctx EXCEPT !.pc = "done", !.err = ErrOpen,
                                    !.cancelled = TRUE]
              /\ UNCHANGED procAlive
    /\ UNCHANGED <<visible, MonitorCh, monFrame, waitFrame, variant, sig, shown,
                   closeReqs, comp>>

\* WaitForAppear finds the main window
WaitForAppearFound ==
    /\ ctx.pc = "appear"
    /\ FindWindow(visible, procAlive) # 0
    /\ ctx' = [ctx EXCEPT !.pc = "ready",
                          !.hwnd = FindWindow(visible, procAlive),
                          !.simplHwnd = IF variant = "deps"
                                        THEN FindWindow(visible, procAlive) ELSE @]
    /\ UNCHANGED <<visible, MonitorCh, monFrame, waitFrame, variant, sig, procAlive,
                   shown, closeReqs, comp>>

\* Client.ForceCleanup(0, knownPid): terminate the known pid, else the pid
\* found by name; the values procAlive can have afterwards
ForceCleanupNoWindow(alive, knownPid) ==
    IF knownPid # 0 THEN {FALSE} ELSE {alive /\ p = 0 : p \in GetPid(alive)}

\* WaitForAppear times out: cmd/root.go forces the cleanup and returns the
\* error, the older Execute returns the error
WaitForAppearTimeout ==
    /\ ctx.pc = "appear"
    /\ FindWindow(visible, procAlive) = 0
    /\ IF variant = "deps"
       THEN /\ ctx' = [ctx EXCEPT !.pc = "done", !.err = ErrAppear,
                                  !.cancelled = TRUE]
            /\ UNCHANGED <<procAlive, visible>>
       ELSE /\ ctx' = [ctx EXCEPT !.pc = "done", !.err = ErrAppear,
                                  !.cleanups = @ + 1, !.cancelled = TRUE]
            /\ procAlive' \in ForceCleanupNoWindow(procAlive, ctx.simplPid)
            /\ visible' = IF procAlive' THEN visible ELSE AfterTerminate(visible)
    /\ UNCHANGED <<MonitorCh, monFrame, waitFrame, variant, sig, shown, closeReqs, comp>>

\* WaitForReady: the window answers, or does not within the timeout.  In
\* cmd/root.go the deferred Cleanup is registered after this call, in the
\* older Execute before it.  Compile is then called with the RecompileAll of
\* the configuration in its options.
WaitForReady ==
    /\ ctx.pc = "ready"
    /\ \E ok, recompileAll \in BOOLEAN :
         IF ok
         THEN /\ ctx' = [ctx EXCEPT !.pc = "compile", !.simplHwnd = ctx.hwnd]
              /\ comp' = [comp EXCEPT !.pc = "GetPid", !.recompileAll = recompileAll]
         ELSE /\ ctx' = [ctx EXCEPT !.pc = IF variant = "deps" THEN "cleanup" ELSE "done",
                                    !.err = ErrNotResponding,
                                    !.cancelled = (variant # "deps")]
              /\ UNCHANGED comp
    /\ UNCHANGED <<visible, MonitorCh, monFrame, waitFrame, variant, sig, procAlive,
                   shown, closeReqs>>

\* an Execute that returns the error of Compile before the cleanup is deferred
RunCompilationSkipsCleanup ==
    /\ ctx.pc = "compile"
    /\ comp.pc = "returned"
    /\ ctx' = [ctx EXCEPT !.pc = IF comp.ret.result = Nil THEN "done" ELSE "cleanup",
                          !.err = comp.ret.err,
                          !.cancelled = (comp.ret.result = Nil)]
    /\ UNCHANGED <<visible, MonitorCh, monFrame, waitFrame, variant, sig, procAlive,
                   shown, closeReqs, comp>>

\* Compile has returned: Execute returns its error, or the error made from
\* result.HasErrors, and the deferred Cleanup(hwnd) starts
RunCompilationReturns ==
    /\ ctx.pc = "compile"
    /\ comp.pc = "returned"
    /\ ctx' = [ctx EXCEPT !.pc = "cleanup", !.err = comp.ret.err]
    /\ UNCHANGED <<visible, MonitorCh, monFrame, waitFrame, variant, sig, procAlive,
                   shown, closeReqs, comp>>

\* Client.Cleanup(hwnd): CloseWindow(hwnd, "SIMPL Windows"), then the sleep
CleanupClose ==
    /\ ctx.pc = "cleanup"
    /\ ctx' = [ctx EXCEPT !.pc = "verify", !.cleanups = @ + 1]
    /\ closeReqs' = Append(closeReqs, ctx.hwnd)
    /\ UNCHANGED <<visible, MonitorCh, monFrame, waitFrame, variant, sig, procAlive,
                   shown, comp>>

\* Client.Cleanup(hwnd) after the sleep: when FindWindow still finds a main
\* window, look the pid up and terminate the process; then the deferred
\* cancel of the monitor's context runs and Execute returns
CleanupVerify ==
    /\ ctx.pc = "verify"
    /\ ctx' = [ctx EXCEPT !.pc = "done", !.cancelled = TRUE]
    /\ IF FindWindow(visible, procAlive) # 0
       THEN \E p \in GetPid(procAlive) :
              /\ procAlive' = (p = 0)
              /\ visible' = IF p = 0 THEN visible ELSE AfterTerminate(visible)
       ELSE UNCHANGED <<procAlive, visible>>
    /\ UNCHANGED <<MonitorCh, monFrame, waitFrame, variant, sig, shown, closeReqs, comp>>

(***************************************************************************)
(* Compile: the steps common to the variants                               *)
(***************************************************************************)
compFrame == <<visible, MonitorCh, monFrame, variant, sig, procAlive, shown>>

\* the waiter as a returned call leaves it
WaitReset ==
    /\ wPc' = "idle"
    /\ wMatch' = Matcher("", "")
    /\ wRet' = [found |-> FALSE, ev |-> NoEvent]

\* the select of an event loop is entered: its channel operand is evaluated
\* once, and a receive from a nil channel never proceeds
SelectOn(init, pc) == IF init THEN pc ELSE pc \o "Nil"

\* pid := GetPid(), stored through SimplPidPtr when it is not 0
CompileGetPid ==
    /\ ctx.pc = "compile"
    /\ comp.pc = "GetPid"
    /\ \E p \in GetPid(procAlive) :
         /\ comp' = [comp EXCEPT
                !.pid = p,
                !.pc = IF variant = "event" \/ p = 0
                       THEN "Foreground" ELSE "OperationComplete"]
         /\ ctx' = [ctx EXCEPT !.simplPid = IF p # 0 THEN p ELSE @]
    /\ UNCHANGED <<compFrame, waitFrame, closeReqs>>

\* the calls of VerifyForegroundWindow and what the last one said, given the
\* answers v1 and v2 the window manager has for a first and a second call:
\* "dialog" verifies, and on a mismatch sets the foreground again, sleeps
\* and verifies once more; "event" verifies once; "deps" does not verify
Verification(v, v1, v2) ==
    CASE v = "dialog" /\ v1  -> [verifies |-> 1, verified |-> TRUE]
      [] v = "dialog" /\ ~v1 -> [verifies |-> 2, verified |-> v2]
      [] v = "event"          -> [verifies |-> 1, verified |-> v1]
      [] OTHER                -> [verifies |-> 0, verified |-> FALSE]

\* SetForeground and VerifyForegroundWindow.  "dialog" goes on whatever the
\* verification says, "deps" does not verify, "event" returns an error when
\* SetForeground fails twice or when the verification fails.
CompileForeground ==
    /\ comp.pc = "Foreground"
    /\ \E focus1, focus2, v1, v2 \in BOOLEAN :
         LET vf == Verification(variant, v1, v2)
         IN  IF variant = "event" /\ ~focus1 /\ ~focus2
             THEN comp' = [comp EXCEPT !.pc = "returned",
                                       !.steps = Append(@, "Foreground"),
                                       !.ret = ReturnFatal(comp.result, ErrForeground)]
             ELSE IF variant = "event" /\ ~vf.verified
             THEN comp' = [comp EXCEPT !.pc = "returned",
                                       !.steps = Append(@, "Foreground"),
                                       !.verifies = vf.verifies,
                                       !.verified = vf.verified,
                                       !.ret = ReturnFatal(comp.result, ErrWrongWindow)]
             ELSE comp' = [comp EXCEPT !.pc = "SendKeys",
                                       !.steps = Append(@, "Foreground"),
                                       !.verifies = vf.verifies,
                                       !.verified = vf.verified]
    /\ UNCHANGED <<compFrame, waitFrame, closeReqs, ctx>>

\* a build command that is the plain compile whatever the caller asked for
BuildCommandCompileOnly(recompileAll) == "F12"

\* if opts.RecompileAll { ... SendAltF12 ... } else { ... SendF12 ... }
BuildCommand(recompileAll) == IF recompileAll THEN "AltF12" ELSE "F12"

\* what the injection reports: "dialog" and "event" call SendInput first and
\* keybd_event when it fails, "deps" calls keybd_event only
KeysReported(v, primary, secondary) ==
    IF v = "deps"
    THEN [primary |-> "none", secondary |-> IF secondary THEN "ok" ELSE "fail"]
    ELSE [primary |-> IF primary THEN "ok" ELSE "fail",
          secondary |-> IF primary THEN "none"
                        ELSE IF secondary THEN "ok" ELSE "fail"]

\* a Compile that waits for the dialogs whether or not it has the pid
AfterKeysWaits(v, p, init) ==
    IF v = "event" THEN SelectOn(init, "Events") ELSE "IncompleteSymbols"

\* step that follows the build command
AfterKeys(v, p, init) ==
    CASE v = "event" /\ p # 0 -> SelectOn(init, "Events")
      [] v = "event" /\ p = 0 -> "Close"
      [] v # "event" /\ p # 0 -> "IncompleteSymbols"
      [] OTHER                -> "Finalize"

\* the build command (F12 or Alt+F12).  "deps" returns an error when the
\* keystroke is not sent; "dialog" and "event" drop what the fallback
\* returns and go on.  The local verified is not read from here on.
CompileSendKeys ==
    /\ comp.pc = "SendKeys"
    /\ \E primary, secondary \in BOOLEAN :
         LET k == KeysReported(variant, primary, secondary)
         IN  IF variant = "deps" /\ k.secondary = "fail"
             THEN comp' = [comp EXCEPT !.pc = "returned",
                                       !.steps = Append(@, "SendKeys"),
                                       !.keys = k,
                                       !.sent = {BuildCommand(comp.recompileAll)},
                                       !.verifies = 0, !.verified = FALSE,
                                       !.ret = ReturnFatal(comp.result, ErrKeystroke)]
             ELSE comp' = [comp EXCEPT !.pc = AfterKeys(variant, comp.pid, chInit),
                                       !.steps = Append(@, "SendKeys"),
                                       !.keys = k,
                                       !.sent = {BuildCommand(comp.recompileAll)},
                                       !.verifies = 0, !.verified = FALSE]
    /\ UNCHANGED <<compFrame, waitFrame, closeReqs, ctx>>

(***************************************************************************)
(* Compile of "dialog" and "deps": one WaitOnMonitor call per dialog       *)
(***************************************************************************)
\* a dialog handler calls WaitOnMonitor with the matchers of its step
DialogWait ==
    /\ comp.pc \in WaitSteps
    /\ WaitEnter(StepMatcher(variant, comp.pc))
    /\ comp' = [comp EXCEPT !.steps = Append(@, comp.pc)]
    /\ UNCHANGED <<compFrame, closeReqs, ctx>>

\* HandleOperationComplete after the wait: close the dialog when found
HandleOperationComplete ==
    /\ comp.pc = "OperationComplete"
    /\ wPc = "ret"
    /\ WaitReset
    /\ closeReqs' = IF wRet.found THEN Append(closeReqs, wRet.ev.Hwnd) ELSE closeReqs
    /\ comp' = [comp EXCEPT !.pc = "Foreground"]
    /\ UNCHANGED <<compFrame, ctx>>

\* a handler that takes Incomplete Symbols for a prompt and goes on
IncompleteSymbolsAbsorbed ==
    /\ comp.pc = "IncompleteSymbols"
    /\ wPc = "ret"
    /\ WaitReset
    /\ comp' = [comp EXCEPT !.pc = "ConvertCompile"]
    /\ UNCHANGED <<compFrame, closeReqs, ctx>>

\* HandleIncompleteSymbols after the wait, and Compile's if err != nil
HandleIncompleteSymbols ==
    /\ comp.pc = "IncompleteSymbols"
    /\ wPc = "ret"
    /\ WaitReset
    /\ comp' = IF wRet.found
               THEN [comp EXCEPT !.pc = "returned",
                                 !.ret = ReturnFatal(comp.result, ErrIncompleteSymbols)]
               ELSE [comp EXCEPT !.pc = "ConvertCompile"]
    /\ UNCHANGED <<compFrame, closeReqs, ctx>>

\* handlers that return an error when their dialog did not show
HandleOptionalStrict ==
    /\ comp.pc \in {"ConvertCompile", "CommentedOutSymbols", "Compiling"}
    /\ wPc = "ret"
    /\ WaitReset
    /\ comp' = IF wRet.found
               THEN [comp EXCEPT !.pc =
                        CASE comp.pc = "ConvertCompile"      -> "CommentedOutSymbols"
                          [] comp.pc = "CommentedOutSymbols" -> "Compiling"
                          [] OTHER                           -> "CompileComplete"]
               ELSE [comp EXCEPT !.pc = "returned",
                                 !.ret = ReturnFatal(comp.result, ErrCompileTimeout)]
    /\ UNCHANGED <<compFrame, closeReqs, ctx>>

\* HandleConvertCompile, HandleCommentedOutSymbols and WaitForCompiling after
\* the wait: SetForeground and SendEnter when a prompt is found, a log line
\* for Compiling; never an error
HandleOptional ==
    /\ comp.pc \in {"ConvertCompile", "CommentedOutSymbols", "Compiling"}
    /\ wPc = "ret"
    /\ WaitReset
    /\ comp' = [comp EXCEPT !.pc =
                   CASE comp.pc = "ConvertCompile"      -> "CommentedOutSymbols"
                     [] comp.pc = "CommentedOutSymbols" -> "Compiling"
                     [] OTHER                           -> "CompileComplete"]
    /\ UNCHANGED <<compFrame, closeReqs, ctx>>

\* result fields as CompileWithDeps sets them right after ParseCompileComplete
StatsInto(r, st) ==
    [r EXCEPT !.Warnings = st.w, !.Notices = st.n, !.Errors = st.e,
              !.HasErrors = st.e > 0]

\* a handler that takes a missing Compile Complete dialog for 0/0/0
CompileCompleteAbsorbed ==
    /\ comp.pc = "CompileComplete"
    /\ wPc = "ret"
    /\ WaitReset
    /\ comp' = [comp EXCEPT !.pc = "Finalize"]
    /\ UNCHANGED <<compFrame, closeReqs, ctx>>

\* ParseCompileComplete after the wait: the timeout error, or the handle and
\* the statistics read from the dialog
ParseCompileComplete ==
    /\ comp.pc = "CompileComplete"
    /\ wPc = "ret"
    /\ WaitReset
    /\ IF ~wRet.found
       THEN comp' = [comp EXCEPT !.pc = "returned",
                                 !.ret = ReturnFatal(comp.result, ErrCompileTimeout)]
       ELSE \E st \in CCStats :
              comp' = [comp EXCEPT
                  !.compileCompleteHwnd = wRet.ev.Hwnd,
                  !.counts = st,
                  !.result = IF variant = "deps" THEN StatsInto(@, st) ELSE @,
                  !.pc = IF st.w > 0 \/ st.n > 0 \/ st.e > 0
                         THEN "ProgramCompilation" ELSE "Finalize"]
    /\ UNCHANGED <<compFrame, closeReqs, ctx>>

\* result.ErrorMessages = errorMsgs ...; if len(errorMsgs) > 0 { HasErrors = true }
MessagesInto(r, m) ==
    [r EXCEPT !.ErrorMessages = m.errors, !.WarningMessages = m.warnings,
              !.NoticeMessages = m.notices,
              !.HasErrors = IF Len(m.errors) > 0 THEN TRUE ELSE @]

\* ParseProgramCompilation after the wait: nil lists when the dialog is not
\* found, else the categorized items of its list box
ParseProgramCompilation ==
    /\ comp.pc = "ProgramCompilation"
    /\ wPc = "ret"
    /\ WaitReset
    /\ \E items \in (IF wRet.found THEN ListBoxes ELSE {<<>>}) :
         comp' = [comp EXCEPT
             !.result = MessagesInto(@, ParseItems(variant, items, NoMessages)),
             !.items = items,
             !.pc = "Finalize"]
    /\ UNCHANGED <<compFrame, closeReqs, ctx>>

\* result.Warnings = warnings ... result.HasErrors = errors > 0 of "dialog",
\* after the message lists were stored; "deps" has set the counts already
FinalizeResult(v, r, st) ==
    IF v = "dialog"
    THEN [r EXCEPT !.Warnings = st.w, !.Notices = st.n, !.Errors = st.e,
                   !.HasErrors = st.e > 0]
    ELSE r

\* the counts go into the result and the Compile Complete dialog is closed
CompileFinalize ==
    /\ comp.pc = "Finalize"
    /\ comp' = [comp EXCEPT
           !.result = FinalizeResult(variant, @, comp.counts),
           !.steps = IF comp.compileCompleteHwnd # 0
                     THEN Append(@, "CloseCompileComplete") ELSE @,
           !.pc = IF comp.pid # 0 THEN "Confirmation" ELSE "CloseMain"]
    /\ closeReqs' = IF comp.compileCompleteHwnd # 0
                    THEN Append(closeReqs, comp.compileCompleteHwnd) ELSE closeReqs
    /\ UNCHANGED <<compFrame, waitFrame, ctx>>

\* what FindAndClickButton(hwnd, "&No") and the else branch do to a detected
\* Confirmation dialog: the click when a button with that text exists, else
\* the close request
Resolve(found, button) ==
    CASE ~found -> "none"
      [] button -> "click"
      [] OTHER  -> "close"

\* a handler that clicks the button and asks the dialog to close as well
HandleConfirmationTwice ==
    /\ comp.pc = "Confirmation"
    /\ wPc = "ret"
    /\ WaitReset
    /\ closeReqs' = IF wRet.found THEN Append(closeReqs, wRet.ev.Hwnd) ELSE closeReqs
    /\ comp' = [comp EXCEPT !.pc = "CloseMain",
                            !.confirm = Resolve(wRet.found, TRUE)]
    /\ UNCHANGED <<compFrame, ctx>>

\* HandleConfirmation after the wait: click "&No", or close the dialog when
\* the button is not found
HandleConfirmation ==
    /\ comp.pc = "Confirmation"
    /\ wPc = "ret"
    /\ WaitReset
    /\ \E button \in BOOLEAN :
         /\ closeReqs' = IF Resolve(wRet.found, button) = "close"
                         THEN Append(closeReqs, wRet.ev.Hwnd) ELSE closeReqs
         /\ comp' = [comp EXCEPT !.pc = "CloseMain",
                                 !.confirm = Resolve(wRet.found, button)]
    /\ UNCHANGED <<compFrame, ctx>>

\* CloseWindow(opts.Hwnd, "SIMPL Windows") and the return of the result
CompileCloseMain ==
    /\ comp.pc = "CloseMain"
    /\ closeReqs' = Append(closeReqs, ctx.hwnd)
    /\ comp' = [comp EXCEPT !.pc = "returned",
                            !.steps = Append(@, "CloseMain"),
                            !.ret = ReturnResult(comp.result)]
    /\ UNCHANGED <<compFrame, waitFrame, ctx>>

(***************************************************************************)
(* Compile of "event": handleCompilationEvents reads MonitorCh itself      *)
(***************************************************************************)
\* the step a title of the switch stands for ("" when the switch has no case)
EventStep(title) ==
    CASE title = "Incomplete Symbols"  -> "IncompleteSymbols"
      [] title = "Convert/Compile"     -> "ConvertCompile"
      [] title = "Commented out Symbols and/or Devices" -> "CommentedOutSymbols"
      [] title = "Compiling..."        -> "Compiling"
      [] title = "Compile Complete"    -> "CompileComplete"
      [] title = "Program Compilation" -> "ProgramCompilation"
      [] title = "Operation Complete"  -> "OperationComplete"
      [] OTHER                         -> ""

\* the locals of the loop after the switch on ev.Title
AfterSwitch(c, ev, st) ==
    CASE ev.Title = "Compiling..." ->
            [c EXCEPT !.compilingDetected = TRUE]
      [] ev.Title = "Compile Complete" /\ ~c.compileCompleteDetected ->
            [c EXCEPT !.compileCompleteHwnd = ev.Hwnd,
                      !.result = [@ EXCEPT !.Warnings = st.w, !.Notices = st.n,
                                           !.Errors = st.e],
                      !.compileCompleteDetected = TRUE]
      [] ev.Title = "Program Compilation" /\ c.programCompHwnd = 0 ->
            [c EXCEPT !.programCompHwnd = ev.Hwnd]
      [] OTHER -> c

\* result.HasErrors = result.Errors > 0 || len(result.ErrorMessages) > 0
EventResult(r, m) ==
    [r EXCEPT !.ErrorMessages = m.errors, !.WarningMessages = m.warnings,
              !.NoticeMessages = m.notices,
              !.HasErrors = r.Errors > 0 \/ Len(m.errors) > 0]

\* case ev := <-windows.MonitorCh of handleCompilationEvents: the switch,
\* then the test for completion
EventsRecv ==
    /\ comp.pc = "Events"
    /\ Len(MonitorCh) > 0
    /\ MonitorCh' = Tail(MonitorCh)
    /\ LET ev == Head(MonitorCh)
           tag == EventStep(ev.Title)
           logged == IF tag = "" THEN comp.steps ELSE Append(comp.steps, tag)
       IN  IF ev.Title = "Incomplete Symbols"
           THEN /\ comp' = [comp EXCEPT
                       !.pc = "returned", !.steps = logged,
                       !.ret = ReturnFatal(comp.result, ErrIncompleteSymbols)]
                /\ UNCHANGED closeReqs
           ELSE \E st \in CCStats, items \in ListBoxes :
                  LET c == [AfterSwitch(comp, ev, st) EXCEPT !.steps = logged]
                      r == c.result
                  IN  /\ closeReqs' = IF ev.Title = "Operation Complete"
                                      THEN Append(closeReqs, ev.Hwnd) ELSE closeReqs
                      /\ IF ~c.compileCompleteDetected
                         THEN comp' = c
                         ELSE IF (r.Warnings > 0 \/ r.Notices > 0 \/ r.Errors > 0)
                                 /\ c.programCompHwnd = 0
                         THEN comp' = c
                         ELSE comp' = [c EXCEPT
                                !.result = EventResult(r,
                                    IF c.programCompHwnd # 0
                                    THEN ParseItems(variant, items, NoMessages)
                                    ELSE NoMessages),
                                !.items = IF c.programCompHwnd # 0 THEN items ELSE <<>>,
                                !.pc = "Close"]
    /\ UNCHANGED <<visible, monFrame, variant, sig, procAlive, shown, waitFrame, ctx>>

\* case <-timeout.C of handleCompilationEvents
EventsTimeout ==
    /\ comp.pc \in {"Events", "EventsNil"}
    /\ comp' = [comp EXCEPT !.pc = "returned",
                            !.ret = ReturnFatal(comp.result, ErrCompileTimeout)]
    /\ UNCHANGED <<compFrame, waitFrame, closeReqs, ctx>>

\* close the Compile Complete dialog, close the main window, then listen for
\* the confirmation when the pid is known
CompileClose ==
    /\ comp.pc = "Close"
    /\ closeReqs' = IF comp.compileCompleteHwnd # 0
                    THEN closeReqs \o <<comp.compileCompleteHwnd, ctx.hwnd>>
                    ELSE Append(closeReqs, ctx.hwnd)
    /\ comp' = [comp EXCEPT
           !.steps = IF comp.compileCompleteHwnd # 0
                     THEN @ \o <<"CloseCompileComplete", "CloseMain">>
                     ELSE Append(@, "CloseMain"),
           !.pc = IF comp.pid # 0 THEN SelectOn(chInit, "PostEvents") ELSE "returned",
           !.ret = IF comp.pid # 0 THEN @ ELSE ReturnResult(comp.result)]
    /\ UNCHANGED <<compFrame, waitFrame, ctx>>

\* case ev := <-windows.MonitorCh of handlePostCompilationEvents: one event
\* is taken, a Confirmation dialog is answered, and Compile returns
PostEventsRecv ==
    /\ comp.pc = "PostEvents"
    /\ Len(MonitorCh) > 0
    /\ MonitorCh' = Tail(MonitorCh)
    /\ LET ev == Head(MonitorCh)
       IN  \E button \in BOOLEAN :
             LET did == Resolve(ev.Title = "Confirmation", button)
             IN  /\ closeReqs' = IF did = "close"
                                 THEN Append(closeReqs, ev.Hwnd) ELSE closeReqs
                 /\ comp' = [comp EXCEPT
                        !.pc = "returned",
                        !.steps = IF ev.Title = "Confirmation"
                                  THEN Append(@, "Confirmation") ELSE @,
                        !.confirm = did,
                        !.ret = ReturnResult(comp.result)]
    /\ UNCHANGED <<visible, monFrame, variant, sig, procAlive, shown, waitFrame, ctx>>

\* case <-timeout.C of handlePostCompilationEvents
PostEventsTimeout ==
    /\ comp.pc \in {"PostEvents", "PostEventsNil"}
    /\ comp' = [comp EXCEPT !.pc = "returned", !.ret = ReturnResult(comp.result)]
    /\ UNCHANGED <<compFrame, waitFrame, closeReqs, ctx>>

(***************************************************************************)
(* The application: its main window and its dialogs appear, a window that  *)
(* was asked to close goes away                                            *)
(***************************************************************************)
\* dialogs the application shows in a run of Spec
SpecDialogs == {1, 3, 6, 9}

\* the build command has reached the application
Injected == comp.keys.primary = "ok" \/ comp.keys.secondary = "ok"

CloseRequested(h) == \E i \in 1..Len(closeReqs) : closeReqs[i] = h

\* the main window appears once the application runs
AppShowMain ==
    /\ procAlive
    /\ ctx.pc # "done"
    /\ MainHwnd \notin shown
    /\ visible' = visible \cup {MainHwnd}
    /\ shown' = shown \cup {MainHwnd}
    /\ UNCHANGED <<MonitorCh, monFrame, waitFrame, variant, sig, procAlive, closeReqs,
                   ctx, comp>>

\* a dialog appears while Compile runs: those of the build after the build
\* command has arrived, the confirmation after the main window or the
\* Compile Complete dialog was asked to close
AppShowDialog ==
    /\ procAlive
    /\ ctx.pc = "compile"
    /\ comp.pc # "returned"
    /\ MainHwnd \in shown
    /\ Cardinality(shown \cap SpecDialogs) < MaxShown
    /\ \E h \in SpecDialogs \ shown :
         /\ IF TitleOf(h) = "Confirmation"
            THEN CloseRequested(MainHwnd) \/ CloseRequested(1) ELSE Injected
         /\ visible' = visible \cup {h}
         /\ shown' = shown \cup {h}
    /\ UNCHANGED <<MonitorCh, monFrame, waitFrame, variant, sig, procAlive, closeReqs,
                   ctx, comp>>

\* the main window goes away after it was asked to close
AppCloseWindow ==
    /\ MainHwnd \in visible
    /\ CloseRequested(MainHwnd)
    /\ visible' = visible \ {MainHwnd}
    /\ UNCHANGED <<MonitorCh, monFrame, waitFrame, variant, sig, procAlive, shown,
                   closeReqs, ctx, comp>>

(***************************************************************************)
(* The interrupt handlers of setupSignalHandlers (the console control      *)
(* handler and the goroutine behind signal.Notify) and the process exit    *)
(***************************************************************************)
\* positions of Execute at which the handlers are installed and the process
\* still runs
HandlerLive == {"appear", "ready", "compile", "cleanup", "verify"}

\* what is left of the frame when the handler acts
sigFrame == <<MonitorCh, monFrame, waitFrame, variant, shown, ctx, comp>>

\* TerminateProcess(pid) as ForceCleanup and Cleanup call it
Terminated(alive, pid) == IF pid = TargetPid THEN FALSE ELSE alive

\* a handler whose shutdown call takes nothing from the ExecutionContext
SigInterruptBlind ==
    /\ sig.pc = "idle"
    /\ ctx.pc \in HandlerLive
    /\ sig' = [sig EXCEPT !.pc = "force"]
    /\ UNCHANGED <<visible, procAlive, closeReqs, sigFrame>>

\* a console control event or a signal arrives: the handler reads
\* ctx.simplHwnd and ctx.simplPid for its call of ForceCleanup
SigInterrupt ==
    /\ sig.pc = "idle"
    /\ ctx.pc \in HandlerLive
    /\ sig' = [sig EXCEPT !.pc = "force", !.hwnd = ctx.simplHwnd,
                          !.pid = ctx.simplPid]
    /\ UNCHANGED <<visible, procAlive, closeReqs, sigFrame>>

\* a shutdown that starts only once Execute is neither in a wait nor in its
\* own Cleanup
SigForceCleanupWaits ==
    /\ sig.pc = "force"
    /\ wPc = "idle"
    /\ comp.pc \notin {"Events", "EventsNil", "PostEvents", "PostEventsNil"}
    /\ ctx.pc \notin {"cleanup", "verify"}
    /\ sig' = [sig EXCEPT !.pc = "exit", !.steps = @ + 1]
    /\ UNCHANGED <<visible, procAlive, closeReqs, sigFrame>>

\* Client.ForceCleanup(hwnd, knownPid) up to the sleep of Cleanup: with a
\* handle, Cleanup(hwnd) posts WM_CLOSE; without one the known pid is
\* terminated, or else the pid GetPid finds
SigForceCleanup ==
    /\ sig.pc = "force"
    /\ IF sig.hwnd # 0
       THEN /\ closeReqs' = Append(closeReqs, sig.hwnd)
            /\ sig' = [sig EXCEPT !.pc = "verify", !.closed = TRUE,
                                  !.steps = @ + 1]
            /\ UNCHANGED <<visible, procAlive>>
       ELSE IF sig.pid # 0
       THEN /\ sig' = [sig EXCEPT !.pc = "exit", !.killBy = "known",
                                  !.steps = @ + 1]
            /\ procAlive' = Terminated(procAlive, sig.pid)
            /\ visible' = IF procAlive' THEN visible ELSE AfterTerminate(visible)
            /\ UNCHANGED closeReqs
       ELSE \E p \in GetPid(procAlive) :
            /\ sig' = [sig EXCEPT !.pc = "exit",
                                  !.killBy = IF p # 0 THEN "name" ELSE "none",
                                  !.steps = @ + 1]
            /\ procAlive' = Terminated(procAlive, p)
            /\ visible' = IF procAlive' THEN visible ELSE AfterTerminate(visible)
            /\ UNCHANGED closeReqs
    /\ UNCHANGED sigFrame

\* Client.Cleanup(hwnd) of the handler after the sleep: FindWindow(0, false),
\* and when a main window is still there GetPid and TerminateProcess
SigCleanupVerify ==
    /\ sig.pc = "verify"
    /\ IF FindWindow(visible, procAlive) # 0
       THEN \E p \in GetPid(procAlive) :
            /\ sig' = [sig EXCEPT !.pc = "exit", !.check = "there",
                                  !.killBy = IF p # 0 THEN "name" ELSE "none",
                                  !.steps = @ + 1]
            /\ procAlive' = Terminated(procAlive, p)
            /\ visible' = IF procAlive' THEN visible ELSE AfterTerminate(visible)
       ELSE /\ sig' = [sig EXCEPT !.pc = "exit", !.check = "gone",
                                  !.steps = @ + 1]
            /\ UNCHANGED <<visible, procAlive>>
    /\ UNCHANGED <<closeReqs, sigFrame>>

\* ctx.exitFunc(130): the process ends, and Execute, Compile, a wait in
\* progress and the monitor end with it
SigExit ==
    /\ sig.pc = "exit"
    /\ sig' = [sig EXCEPT !.pc = "exited", !.code = 130, !.steps = @ + 1]
    /\ ctx' = [ctx EXCEPT !.pc = "exited"]
    /\ comp' = [comp EXCEPT !.pc = "exited"]
    /\ wPc' = "exited"
    /\ mPc' = "stopped"
    /\ UNCHANGED <<visible, MonitorCh, chInit, recentEvents, recentMu, seen, monPid, mSnap,
                   mEv, appended, pushed, wMatch, wRet, variant, procAlive,
                   shown, closeReqs>>

\* smpwin.exe ends by itself once its main window has closed
AppExit ==
    /\ procAlive
    /\ MainHwnd \in shown
    /\ MainHwnd \notin visible
    /\ procAlive' = FALSE
    /\ visible' = AfterTerminate(visible)
    /\ UNCHANGED <<MonitorCh, monFrame, waitFrame, variant, sig, shown,
                   closeReqs, ctx, comp>>

(***************************************************************************)
(* SpecBus: the monitor against a client that calls WaitOnMonitor with     *)
(* any of the matcher sets                                                 *)
(***************************************************************************)
BusMatchers ==
    { Matcher("Compile Complete", "compile complete"),
      Matcher("Compiling...", "compiling"),
      Matcher("Confirmation", "") }

BusCall ==
    /\ \E m \in BusMatchers : WaitEnter(m)
    /\ UNCHANGED <<visible, MonitorCh, chInit, recentEvents, recentMu, seen, monPid, mPc,
                   mSnap, mEv, appended, pushed>>
    /\ UNCHANGED orchVars

BusReturn ==
    /\ wPc = "ret"
    /\ wPc' = "idle"
    /\ wMatch' = Matcher("", "")
    /\ wRet' = [found |-> FALSE, ev |-> NoEvent]
    /\ UNCHANGED <<visible, MonitorCh, chInit, recentEvents, recentMu, seen, monPid, mPc,
                   mSnap, mEv, appended, pushed>>
    /\ UNCHANGED orchVars

BusEnvShow == \E h \in BusHwnds : ShowWindow(h)
BusEnvHide == \E h \in BusHwnds : HideWindow(h)

BusInit ==
    /\ visible = {}
    /\ MonitorCh = <<>>
    /\ chInit = FALSE
    /\ recentEvents = <<>>
    /\ recentMu = "free"
    /\ seen = {}
    /\ monPid = 0
    /\ mPc = "off"
    /\ mSnap = {}
    /\ mEv = NoEvent
    /\ appended = [h \in AllHwnds |-> 0]
    /\ pushed = [h \in AllHwnds |-> 0]
    /\ wPc = "idle"
    /\ wMatch = Matcher("", "")
    /\ wRet = [found |-> FALSE, ev |-> NoEvent]

\* no application, no command
OrchInit ==
    /\ procAlive = FALSE
    /\ shown = {}
    /\ closeReqs = <<>>
    /\ ctx = IdleCtx
    /\ comp = IdleComp
    /\ sig = IdleSig

InitBus == BusInit /\ variant = "none" /\ OrchInit

NextBus ==
    \/ MonStart
    \/ MonTick
    \/ MonScan
    \/ MonAppend
    \/ MonSend
    \/ BusCall
    \/ WaitScan
    \/ WaitRecv
    \/ WaitTimeout
    \/ BusReturn
    \/ BusEnvShow
    \/ BusEnvHide

SpecBus == InitBus /\ [][NextBus]_vars

(***************************************************************************)
(* Spec: one run of the command, in any of its variants, with the monitor  *)
(* and the application running beside it                                   *)
(***************************************************************************)
Init == BusInit /\ variant \in Variants /\ OrchInit

Next ==
    \/ MonStart
    \/ MonCancelled
    \/ MonTick
    \/ MonScan
    \/ MonAppend
    \/ MonSend
    \/ WaitScan
    \/ WaitRecv
    \/ WaitTimeout
    \/ LaunchSIMPLWindows
    \/ WaitForAppearFound
    \/ WaitForAppearTimeout
    \/ WaitForReady
    \/ RunCompilationReturns
    \/ CleanupClose
    \/ CleanupVerify
    \/ CompileGetPid
    \/ CompileForeground
    \/ CompileSendKeys
    \/ DialogWait
    \/ HandleOperationComplete
    \/ HandleIncompleteSymbols
    \/ HandleOptional
    \/ ParseCompileComplete
    \/ ParseProgramCompilation
    \/ CompileFinalize
    \/ HandleConfirmation
    \/ CompileCloseMain
    \/ EventsRecv
    \/ EventsTimeout
    \/ CompileClose
    \/ PostEventsRecv
    \/ PostEventsTimeout
    \/ AppShowMain
    \/ AppShowDialog
    \/ AppCloseWindow

Spec == Init /\ [][Next]_vars

\* the steps of the goroutine that runs Execute and Compile, the expiry of
\* its timers included; a receive from MonitorCh is not one of them, since
\* it needs the monitor to have sent
OrchStep ==
    \/ WaitScan
    \/ WaitTimeout
    \/ LaunchSIMPLWindows
    \/ WaitForAppearFound
    \/ WaitForAppearTimeout
    \/ WaitForReady
    \/ RunCompilationReturns
    \/ CleanupClose
    \/ CleanupVerify
    \/ CompileGetPid
    \/ CompileForeground
    \/ CompileSendKeys
    \/ DialogWait
    \/ HandleOperationComplete
    \/ HandleIncompleteSymbols
    \/ HandleOptional
    \/ ParseCompileComplete
    \/ ParseProgramCompilation
    \/ CompileFinalize
    \/ HandleConfirmation
    \/ CompileCloseMain
    \/ EventsTimeout
    \/ CompileClose
    \/ PostEventsTimeout

\* SpecLive: the goroutine of Execute keeps running and its timers expire;
\* nothing is assumed of the monitor or of the application
SpecLive == Spec /\ WF_vars(OrchStep)

(***************************************************************************)
(* SpecSig: a run of the command that an interrupt can cut short, with a    *)
(* compiler that shows no dialog                                           *)
(***************************************************************************)
NextSig ==
    \/ MonStart
    \/ MonCancelled
    \/ MonTick
    \/ MonScan
    \/ MonAppend
    \/ MonSend
    \/ WaitScan
    \/ WaitRecv
    \/ WaitTimeout
    \/ LaunchSIMPLWindows
    \/ WaitForAppearFound
    \/ WaitForAppearTimeout
    \/ WaitForReady
    \/ RunCompilationReturns
    \/ CleanupClose
    \/ CleanupVerify
    \/ CompileGetPid
    \/ CompileForeground
    \/ CompileSendKeys
    \/ DialogWait
    \/ HandleOperationComplete
    \/ HandleIncompleteSymbols
    \/ HandleOptional
    \/ ParseCompileComplete
    \/ CompileFinalize
    \/ CompileCloseMain
    \/ EventsRecv
    \/ EventsTimeout
    \/ CompileClose
    \/ AppShowMain
    \/ AppCloseWindow
    \/ AppExit
    \/ SigInterrupt
    \/ SigForceCleanup
    \/ SigCleanupVerify
    \/ SigExit

SpecSig == Init /\ [][NextSig]_vars

\* the handler runs on a thread of its own (the console control thread, or
\* the goroutine that receives from sigChan): once entered it is scheduled
SpecSigFair ==
    /\ SpecSig
    /\ WF_vars(SigForceCleanup)
    /\ WF_vars(SigCleanupVerify)
    /\ WF_vars(SigExit)

(***************************************************************************)
(* Properties of the monitor, the channel and WaitOnMonitor (SpecBus)      *)
(***************************************************************************)
\* positions of the cache entries that a matcher of m accepts
MatchingAt(cache, m) == {i \in 1..Len(cache) : Matches(m, cache[i])}

SetMax(S) == CHOOSE x \in S : \A y \in S : y <= x

\* C1: a wait never misses an event recorded before it times out.  Stated
\* for the case most favourable to the code: whenever a wait times out with
\* nothing left on the channel and no delivery of the monitor pending, the
\* replay cache holds no event that its matchers accept.
C1_NoMissedEvent ==
    [][ ( /\ wPc = "block" /\ wPc' = "ret" /\ ~wRet'.found
          /\ Len(MonitorCh) = 0
          /\ mPc # "send" )
        => MatchingAt(recentEvents, wMatch) = {} ]_vars

\* C2: when the scan of the replay cache finds the cache holding an event
\* that a matcher accepts, the call returns found = true with the newest
\* such entry, straight from the scan (the timer is never armed) and with
\* the channel left as it was.
C2_CachedMatchReturned ==
    [][ ( /\ wPc = "scan" /\ wPc' # "scan"
          /\ MatchingAt(recentEvents, wMatch) # {} )
        => ( /\ wPc' = "ret"
             /\ wRet'.found
             /\ wRet'.ev = recentEvents[SetMax(MatchingAt(recentEvents, wMatch))]
             /\ MonitorCh' = MonitorCh ) ]_vars

\* a call returned the newer of two cached matches while that event is
\* still waiting on the channel
C2_Witness ==
    /\ wPc = "ret" /\ wRet.found
    /\ Cardinality(MatchingAt(recentEvents, wMatch)) >= 2
    /\ \E i \in 1..Len(MonitorCh) : MonitorCh[i] = wRet.ev

\* C3: over the monitor's lifetime a window handle is appended to the
\* replay cache at most once and pushed on the channel at most once.
C3_OneEventPerHandle ==
    \A h \in AllHwnds : appended[h] <= 1 /\ pushed[h] <= 1

\* a later tick enumerates a window whose event was already emitted
C3_Witness ==
    /\ mPc = "scan"
    /\ \E h \in mSnap : h \in seen /\ appended[h] = 1 /\ pushed[h] = 1

\* C4: the monitor never blocks on delivery: at its send it can always take
\* a step, and with the channel full that step drops the notification,
\* leaves the channel alone, goes on with the tick, and the event is the
\* newest entry of the replay cache.
C4_MonitorNeverBlocks ==
    /\ [](mPc = "send" => ENABLED MonSend)
    /\ [][ (mPc = "send" /\ Len(MonitorCh) = ChanCap /\ mPc' # "send")
           => ( /\ MonitorCh' = MonitorCh
                /\ mPc' = "scan"
                /\ Len(recentEvents') > 0
                /\ recentEvents'[Len(recentEvents')] = mEv ) ]_vars

\* an event was dropped from live delivery and is in the replay cache
C4_Witness ==
    \E h \in AllHwnds :
        /\ appended[h] = 1 /\ pushed[h] = 0 /\ mEv.Hwnd # h
        /\ \E i \in 1..Len(recentEvents) : recentEvents[i].Hwnd = h

(***************************************************************************)
(* Properties of Execute and Compile (Spec)                                *)
(***************************************************************************)
\* errors the specification calls fatal for the orchestrator
FatalErrors ==
    {ErrIncompleteSymbols, ErrCompileTimeout, ErrForeground, ErrWrongWindow,
     ErrKeystroke}

Returned == comp.pc = "returned"

LastStep == IF comp.steps = <<>> THEN "" ELSE comp.steps[Len(comp.steps)]

\* (populated result, no error)
ShapeSuccess(r) ==
    /\ r.result # Nil
    /\ r.err = NoErr
    /\ ~r.result[1].HasErrors

\* (populated result, error)
ShapeCompileFailure(r) ==
    /\ r.result # Nil
    /\ r.result[1].HasErrors
    /\ r.err = ErrCompileFailed(r.result[1].Errors)

\* (no result, error)
ShapeFatal(r) ==
    /\ r.result = Nil
    /\ r.err \in FatalErrors

\* C5: every return of Compile has exactly one of three shapes: a result
\* without errors and no error, a result marked HasErrors and the
\* "compilation failed" error, or no result and a fatal error.  So a fatal
\* error never comes with a result and a missing result never comes without
\* an error.
C5_ReturnShapes ==
    Returned =>
        /\ ShapeSuccess(comp.ret) \/ ShapeCompileFailure(comp.ret)
              \/ ShapeFatal(comp.ret)
        /\ comp.ret.err \in FatalErrors => comp.ret.result = Nil
        /\ comp.ret.result = Nil => comp.ret.err # NoErr

\* Compile returned a result together with the compile-failure error
C5_Witness ==
    /\ Returned
    /\ ShapeCompileFailure(comp.ret)
    /\ comp.ret.result[1].Errors > 0

\* C6: whenever Execute has ended after the application was launched, the
\* cleanup (Cleanup or ForceCleanup) ran before it returned.
C6_CleanupOnEveryPath ==
    (ctx.pc = "done" /\ ctx.launched) => ctx.cleanups >= 1

\* C7: in every result Compile returns, HasErrors is true exactly when
\* Errors > 0 or ErrorMessages is not empty.
C7_HasErrorsIff ==
    (Returned /\ comp.ret.result # Nil) =>
        LET r == comp.ret.result[1]
        IN  r.HasErrors <=> (r.Errors > 0 \/ Len(r.ErrorMessages) > 0)

\* the step in which Compile learns of the Incomplete Symbols dialog: the
\* wait of HandleIncompleteSymbols came back found, or the event loop takes
\* an event with that title from the channel
IncompleteSymbolsDetected ==
    \/ /\ comp.pc = "IncompleteSymbols"
       /\ wPc = "ret" /\ wRet.found
       /\ comp' # comp
    \/ /\ comp.pc = "Events"
       /\ Len(MonitorCh) > 0
       /\ Head(MonitorCh).Title = "Incomplete Symbols"
       /\ MonitorCh' = Tail(MonitorCh)
       /\ comp' # comp

\* C8: when the Incomplete Symbols dialog is detected, that very step makes
\* Compile return no result and the incomplete-symbols error, asks for no
\* window to be closed and enters no wait; the IncompleteSymbols step is the
\* last step of the run, and a Compile that has returned takes no further
\* step and starts no wait.
C8_IncompleteSymbolsAborts ==
    /\ [][ IncompleteSymbolsDetected
           => ( /\ comp'.pc = "returned"
                /\ comp'.ret = [result |-> Nil, err |-> ErrIncompleteSymbols]
                /\ comp'.steps[Len(comp'.steps)] = "IncompleteSymbols"
                /\ closeReqs' = closeReqs
                /\ wPc' = "idle" ) ]_vars
    /\ [][ Returned
           => ( /\ comp' = comp
                /\ wPc' = wPc
                /\ MonitorCh' = MonitorCh \/ Len(MonitorCh') > Len(MonitorCh) ) ]_vars

\* Compile ended on Incomplete Symbols while the Compile Complete dialog was
\* on the screen as well
C8_Witness ==
    /\ Returned
    /\ comp.ret.err = ErrIncompleteSymbols
    /\ LastStep = "IncompleteSymbols"
    /\ 1 \in visible

\* the step in which the wait for Compile Complete ends without the dialog:
\* the wait of ParseCompileComplete came back not found, or the event loop
\* leaves on its timer
CompileCompleteMissed ==
    \/ /\ comp.pc = "CompileComplete"
       /\ wPc = "ret" /\ ~wRet.found
       /\ comp' # comp
    \/ /\ comp.pc \in {"Events", "EventsNil"}
       /\ comp'.pc # comp.pc
       /\ MonitorCh' = MonitorCh

C10_InjectionFailureFatal ==
    (comp.keys.primary = "fail" /\ comp.keys.secondary = "fail") =>
        /\ Returned
        /\ comp.ret.result = Nil
        /\ comp.ret.err # NoErr
        /\ LastStep = "SendKeys"

\* C11: once Execute has ended, by whatever path, the context of the monitor
\* is cancelled and the monitor takes no further step: it starts no scan,
\* marks no window seen, records no event and puts none on the channel.
C11_MonitorStopsOnExit ==
    [][ ctx.pc = "done"
        => ( /\ ctx.cancelled
             /\ mPc' = mPc \/ mPc' = "stopped"
             /\ mSnap' = mSnap
             /\ seen' = seen
             /\ recentEvents' = recentEvents
             /\ Len(MonitorCh') <= Len(MonitorCh) ) ]_vars

\* C20: the step that brings the window to the foreground verifies at most
\* twice; a verification that fails is followed by exactly one more, and a
\* mismatch that is still there after the last verification does not end
\* the run: Compile goes on to the build command, which it then sends.
C20_VerificationRetriedOnce ==
    /\ [][ (comp.pc = "Foreground" /\ comp' # comp)
           => ( /\ comp'.verifies <= 2
                /\ (comp'.verifies >= 1 /\ ~comp'.verified)
                     => (comp'.verifies = 2 /\ comp'.pc = "SendKeys") ) ]_vars
    /\ [][ (comp.pc = "SendKeys" /\ comp' # comp)
           => comp'.keys # IdleComp.keys ]_vars

\* the optional dialog steps and the step that follows each
OptionalSteps ==
    {"OperationComplete", "IncompleteSymbols", "ConvertCompile",
     "CommentedOutSymbols", "Compiling", "Confirmation"}

StepAfter(step) ==
    CASE step = "OperationComplete"   -> "Foreground"
      [] step = "IncompleteSymbols"   -> "ConvertCompile"
      [] step = "ConvertCompile"      -> "CommentedOutSymbols"
      [] step = "CommentedOutSymbols" -> "Compiling"
      [] step = "Compiling"           -> "CompileComplete"
      [] OTHER                        -> "CloseMain"

\* C18: when the wait of an optional dialog step (Operation Complete,
\* Incomplete Symbols, Convert/Compile, Commented out Symbols, Compiling,
\* Confirmation) comes back without the dialog, Compile returns no error,
\* closes nothing and goes to the step that follows.
C18_OptionalMissProceeds ==
    [][ ( /\ comp.pc \in OptionalSteps
          /\ wPc = "ret" /\ ~wRet.found
          /\ comp' # comp )
        => ( /\ comp'.pc = StepAfter(comp.pc)
             /\ comp'.ret = NotReturned
             /\ closeReqs' = closeReqs ) ]_vars

\* Compile returned a result with the pid known although the only dialog the
\* application ever showed was Compile Complete
C18_Witness ==
    /\ Returned
    /\ comp.pid # 0
    /\ variant # "event"
    /\ comp.ret.result # Nil
    /\ shown = {MainHwnd, 1}

\* tags of the steps that wait for a dialog or read the channel
WaitTags == WaitSteps \cup {"Confirmation"}

KnownHwnd ==
    IF ctx.pc \in {"launch", "appear"} \/ (variant # "deps" /\ ctx.pc = "ready")
    THEN 0 ELSE ctx.hwnd

\* C17: on an interrupt the handler calls ForceCleanup with the window handle
\* and the process id Execute knows at that moment (the pid of the launch,
\* replaced by the one Compile looked up), and the process exits, with
\* status 130, only from the position after that call has returned.
C17_InterruptCleansUpThenExits ==
    /\ [][ (sig.pc = "idle" /\ sig' # sig)
           => ( /\ sig'.pc = "force"
                /\ sig'.hwnd = KnownHwnd
                /\ sig'.pid = ctx.simplPid
                /\ comp.pid # 0 => sig'.pid = comp.pid
                /\ variant # "deps" => sig'.pid = TargetPid
                /\ closeReqs' = closeReqs
                /\ procAlive' = procAlive ) ]_vars
    /\ [][ (sig.pc # "exited" /\ sig'.pc = "exited")
           => ( /\ sig.pc = "exit"
                /\ sig.steps >= 1
                /\ sig'.code = 130 ) ]_vars
    /\ [][ sig.pc = "force" => sig'.pc \in {"force", "verify", "exit"} ]_vars

\* the handler was given the handle and the pid, asked the window to close,
\* and the process has exited with 130
C17_Witness ==
    /\ sig.pc = "exited"
    /\ sig.code = 130
    /\ sig.hwnd = MainHwnd
    /\ sig.pid = TargetPid
    /\ sig.closed

\* C16: a ForceCleanup that is given a window handle terminates the process
\* only after it has asked the window to close and found the target still
\* there; it then terminates the pid it was given when that pid is not 0,
\* and looks the pid up by name only when it was given 0.
C16_GracefulCloseThenTerminate ==
    sig.hwnd # 0 =>
        /\ sig.killBy # "none" => (sig.closed /\ sig.check = "there")
        /\ sig.killBy = "name" => sig.pid = 0
        /\ (sig.pc \in {"exit", "exited"} /\ sig.check = "there" /\ sig.pid # 0)
               => sig.killBy = "known"

\* C14: a ForceCleanup called after a cleanup of Execute, when the main
\* window and the process are gone, posts no close request, terminates no
\* process and changes nothing.
C14_SecondCallIsNoOp ==
    [][ ( /\ sig.pc = "force"
          /\ sig' # sig
          /\ ctx.cleanups >= 1
          /\ visible = {}
          /\ ~procAlive )
        => ( /\ closeReqs' = closeReqs
             /\ sig'.killBy = "none"
             /\ ~sig'.closed
             /\ visible' = visible
             /\ procAlive' = procAlive ) ]_vars

\* C13: the cleanup of the handler and the cleanup on the exit path of
\* Execute never wait for each other: each can take its next step in every
\* state, whatever the other one and Compile are doing (a wait that blocks
\* included), and the handler, once entered, reaches the exit in at most
\* three steps.
C13_InterruptPathNeverBlocked ==
    /\ [](sig.pc = "force" => ENABLED SigForceCleanup)
    /\ [](sig.pc = "verify" => ENABLED SigCleanupVerify)
    /\ [](sig.pc = "exit" => ENABLED SigExit)
    /\ [](ctx.pc = "cleanup" => ENABLED CleanupClose)
    /\ [](ctx.pc = "verify" => ENABLED CleanupVerify)
    /\ [](sig.steps <= 3)
    /\ (sig.pc = "force") ~> (sig.pc = "exited")

\* the handler and Execute are both between the close request and the
\* verification of their Cleanup
C13_Witness ==
    /\ sig.pc = "verify"
    /\ ctx.pc = "verify"
    /\ closeReqs = <<MainHwnd, MainHwnd>>

ReportedCounts ==
    IF variant = "event"
    THEN [w |-> comp.result.Warnings, n |-> comp.result.Notices,
          e |-> comp.result.Errors]
    ELSE comp.counts

\* Compile is past the Compile Complete dialog and, when its counts asked
\* for it, past the Program Compilation dialog
PastProgramCompilation ==
    \/ Returned /\ comp.ret.result # Nil
    \/ variant = "event" /\ comp.pc \in {"Close", "PostEvents", "PostEventsNil"}
    \/ variant # "event" /\ comp.pc \in {"Finalize", "Confirmation", "CloseMain"}

Waited(step) == \E i \in 1..Len(comp.steps) : comp.steps[i] = step

\* C21: Compile waits for the Program Compilation dialog exactly when one of
\* the counts of Compile Complete is not 0; with 0/0/0 there is no such wait
\* and the result has HasErrors = FALSE and Errors = 0.  (For the event loop,
\* which has no wait call of its own for the dialog, only the result is
\* stated.)
C21_ProgramCompilationIffCounts ==
    PastProgramCompilation =>
        /\ variant # "event"
              => (Waited("ProgramCompilation") <=> ReportedCounts # NoStats)
        /\ ReportedCounts = NoStats
              => (~comp.result.HasErrors /\ comp.result.Errors = 0)

\* number of lines of a list box that start with ERROR, in any case
RECURSIVE ErrorLines(_)
ErrorLines(items) ==
    IF items = <<>> THEN 0
    ELSE (IF Token(Head(items)) = "ERROR" THEN 1 ELSE 0) + ErrorLines(Tail(items))

\* C22: a returned result with HasErrors comes with the error
\* "compilation failed with N error(s)", N being its error count; and when
\* the list box of Program Compilation held exactly N lines that start with
\* ERROR, ErrorMessages has N entries.
C22_FailureCarriesCountAndMessages ==
    (Returned /\ comp.ret.result # Nil /\ comp.result.HasErrors) =>
        /\ comp.ret.result = Ptr(comp.result)
        /\ comp.ret.err = ErrCompileFailed(comp.result.Errors)
        /\ (comp.result.Errors > 0 /\ ErrorLines(comp.items) = comp.result.Errors)
              => Len(comp.result.ErrorMessages) = comp.result.Errors

\* C23: Compile asks the Compile Complete dialog to close before it asks the
\* main window to close, and starts to wait for the Confirmation dialog only
\* after it has asked the main window to close.
C23_ShutdownOrder ==
    /\ \A i, j \in 1..Len(comp.steps) :
          (comp.steps[i] = "CloseCompileComplete" /\ comp.steps[j] = "CloseMain")
              => i < j
    /\ \A i \in 1..Len(comp.steps) :
          comp.steps[i] = "Confirmation"
              => \E j \in 1..(i - 1) : comp.steps[j] = "CloseMain"
    /\ comp.pc \in {"PostEvents", "PostEventsNil"} => Waited("CloseMain")

\* the Confirmation dialog of the application
ConfirmationHwnd == CHOOSE h \in SpecDialogs : TitleOf(h) = "Confirmation"

\* close requests the dialog h has been sent
CloseCount(h) == Cardinality({i \in 1..Len(closeReqs) : closeReqs[i] = h})

\* C24: a detected Confirmation dialog is answered by exactly one action,
\* the click of its "&No" button when it has one and else one close
\* request, and nothing is done when no Confirmation dialog is detected.
C24_ConfirmationResolvedOnce ==
    /\ [](comp.confirm \in {"none", "click"} => CloseCount(ConfirmationHwnd) = 0)
    /\ [](comp.confirm = "close" => CloseCount(ConfirmationHwnd) = 1)
    /\ [][ (comp.pc = "Confirmation" /\ wPc = "ret" /\ comp' # comp)
           => (wRet.found <=> comp'.confirm # "none") ]_vars
    /\ [][ (comp.pc = "PostEvents" /\ comp' # comp /\ Len(MonitorCh') < Len(MonitorCh))
           => (Head(MonitorCh).Title = "Confirmation" <=> comp'.confirm # "none") ]_vars

\* HandleConfirmation found the dialog without the button and asked it to
\* close
C24_Witness ==
    /\ variant # "event"
    /\ comp.confirm = "close"
    /\ comp.pc = "CloseMain"
    /\ closeReqs = <<1, ConfirmationHwnd>>

(***************************************************************************)
(* Further properties of the cache, the channel and the wait (SpecBus)     *)
(***************************************************************************)
\* C25: the cache never holds more than CacheCap events (256 in the code),
\* only the monitor's append changes it, and an append leaves the event just
\* emitted as the newest entry behind the newest earlier entries, in their
\* order: what is dropped is the oldest entry.
C25_CacheKeepsNewest ==
    /\ [](Len(recentEvents) <= CacheCap)
    /\ [][ recentEvents' # recentEvents => (mPc = "append" /\ mPc' = "send") ]_vars
    /\ [][ (mPc = "append" /\ mPc' = "send")
           => LET old == recentEvents
                  new == recentEvents'
                  kept == Len(new) - 1
              IN  /\ Len(new) = (IF Len(old) < CacheCap THEN Len(old) + 1 ELSE CacheCap)
                  /\ new[Len(new)] = mEv
                  /\ \A i \in 1..kept : new[i] = old[Len(old) - kept + i] ]_vars

\* the cache is full and an event emitted earlier is no longer in it, while
\* the newest event emitted is its last entry
C25_Witness ==
    /\ Len(recentEvents) = CacheCap
    /\ mPc = "send"
    /\ recentEvents[CacheCap] = mEv
    /\ \E h \in BusHwnds :
          /\ appended[h] = 1
          /\ \A i \in 1..CacheCap : recentEvents[i].Hwnd # h

\* times the event of window h is in the channel
InChan(h) == Cardinality({i \in 1..Len(MonitorCh) : MonitorCh[i].Hwnd = h})

\* C26: the event of a window is sent on the channel at most once, so it is
\* in the channel at most once; the channel changes only by that send or by
\* a receive, and a receive takes the head off the channel, so that no
\* second receive can get the same event.
C26_DeliveredAtMostOnce ==
    /\ [](\A h \in AllHwnds : pushed[h] <= 1 /\ InChan(h) <= pushed[h])
    /\ [][ MonitorCh' # MonitorCh
           => \/ /\ Len(MonitorCh) > 0
                 /\ MonitorCh' = Tail(MonitorCh)
                 /\ wPc = "block" \/ comp.pc \in {"Events", "PostEvents"}
              \/ /\ mPc = "send"
                 /\ MonitorCh' = Append(MonitorCh, mEv)
                 /\ pushed[mEv.Hwnd] = 0
                 /\ pushed'[mEv.Hwnd] = 1 ]_vars
    /\ [][ (wPc = "block" /\ wPc' = "ret" /\ wRet'.found)
           => (MonitorCh' = Tail(MonitorCh) /\ wRet'.ev = Head(MonitorCh)) ]_vars

\* an event that was sent once has been received and returned by a wait
\* and is no longer in the channel
C26_Witness ==
    /\ wPc = "ret"
    /\ wRet.found
    /\ pushed[wRet.ev.Hwnd] = 1
    /\ InChan(wRet.ev.Hwnd) = 0
    /\ Len(MonitorCh) > 0

\* a receive of the blocked wait: the head leaves the channel
BlockedRecv ==
    /\ wPc = "block"
    /\ Len(MonitorCh) > 0
    /\ MonitorCh' = Tail(MonitorCh)

\* C27: a blocked wait that receives an event matching one of its
\* predicates returns that event at once, so the event returned is the first
\* matching one received; an event that matches none is dropped and the wait
\* stays blocked with the same predicates; the wait returns not-found only by
\* its timer, which takes nothing from the channel.
C27_BlockingPhaseFirstMatch ==
    /\ [][ (BlockedRecv /\ Matches(wMatch, Head(MonitorCh)))
           => (wPc' = "ret" /\ wRet' = [found |-> TRUE, ev |-> Head(MonitorCh)]) ]_vars
    /\ [][ (BlockedRecv /\ ~Matches(wMatch, Head(MonitorCh)))
           => (wPc' = "block" /\ wRet' = wRet /\ wMatch' = wMatch) ]_vars
    /\ [][ (wPc = "block" /\ wPc' = "ret")
           => \/ BlockedRecv /\ wRet'.found /\ Matches(wMatch, wRet'.ev)
              \/ /\ ~wRet'.found
                 /\ wRet'.ev = NoEvent
                 /\ MonitorCh' = MonitorCh ]_vars

\* the events of two windows were sent and both have left the channel: the
\* one that matches none of the wait's predicates was dropped, the other was
\* returned
C27_Witness ==
    /\ wPc = "ret"
    /\ wRet.found
    /\ MonitorCh = <<>>
    /\ \E h \in BusHwnds :
          /\ pushed[h] = 1
          /\ h # wRet.ev.Hwnd
          /\ ~Matches(wMatch, WindowEvent(h))
          /\ pushed[wRet.ev.Hwnd] = 1

RequestedKind == IF comp.recompileAll THEN "AltF12" ELSE "F12"

\* C29: before the injection step no build command has been sent; from that
\* step on exactly one kind has been sent, Alt+F12 when the options ask for
\* Recompile All and F12 when they do not, and neither the options nor the
\* kinds sent change afterwards.
C29_OneBuildCommandKind ==
    /\ []( IF \E i \in 1..Len(comp.steps) : comp.steps[i] = "SendKeys"
           THEN comp.sent = {RequestedKind}
           ELSE comp.sent = {} )
    /\ [][ comp.sent # {}
           => (comp'.sent = comp.sent /\ comp'.recompileAll = comp.recompileAll) ]_vars

\* a run asked for Recompile All, sent Alt+F12 by keybd_event after
\* SendInput failed, and Compile returned a result
C29_Witness ==
    /\ comp.recompileAll
    /\ comp.keys = [primary |-> "fail", secondary |-> "ok"]
    /\ comp.sent = {"AltF12"}
    /\ Returned
    /\ comp.ret.result # Nil

\* the parser of the variant takes the line as the start of a message:
\* parseDetailedMessages wants a space or a tab after the token
StartsMessage(v, line) ==
    /\ Token(line) \in {"ERROR", "WARNING", "NOTICE"}
    /\ v = "event" => AfterToken(line) \in {" ", "\t"}

\* the line at i and the lines that start no message and follow it, up to
\* the next line that starts one, joined with single spaces
RECURSIVE JoinFrom(_, _, _, _)
JoinFrom(v, items, i, acc) ==
    IF i > Len(items) \/ StartsMessage(v, items[i]) THEN acc
    ELSE JoinFrom(v, items, i + 1, acc \o " " \o items[i])

\* the messages of one kind a list box holds, in its order
EntriesOf(v, items, tok) ==
    LET at == SelectSeq([i \in 1..Len(items) |-> i],
                        LAMBDA i : Token(items[i]) = tok /\ StartsMessage(v, items[i]))
    IN  [k \in 1..Len(at) |-> JoinFrom(v, items, at[k] + 1, items[at[k]])]

\* C30: in the three message lists of the result every entry is a line
\* taken as the start of a message followed by the lines not so taken that
\* come after it in the list box, up to the next start, joined with one
\* space: a continuation line goes to the entry of the nearest start before
\* it, which is the last entry of the list that received an entry most
\* recently, and to no other entry.
C30_ContinuationJoinsMostRecent ==
    /\ comp.result.ErrorMessages = EntriesOf(variant, comp.items, "ERROR")
    /\ comp.result.WarningMessages = EntriesOf(variant, comp.items, "WARNING")
    /\ comp.result.NoticeMessages = EntriesOf(variant, comp.items, "NOTICE")

(***************************************************************************)
(* Properties of the stored messages, the order of the steps and the       *)
(* outcome (Spec)                                                          *)
(***************************************************************************)
\* C31: when the list box of Program Compilation held "ERROR: foo",
\* "cont of foo", "WARNING: bar", the result has the one error message
\* "foo cont of foo", the one warning message "bar" and no notice message:
\* the messages are stored without their leading token and separator.
C31_CategorizeStripsToken ==
    comp.items = <<"ERROR: foo", "cont of foo", "WARNING: bar">> =>
        /\ comp.result.ErrorMessages = <<"foo cont of foo">>
        /\ comp.result.WarningMessages = <<"bar">>
        /\ comp.result.NoticeMessages = <<>>

\* place of a step in the order of the claim; closing the Compile Complete
\* dialog, closing the main window and the Confirmation wait are its last
\* step
StepRank(step) ==
    CASE step = "OperationComplete"   -> 1
      [] step = "Foreground"          -> 2
      [] step = "SendKeys"            -> 3
      [] step = "IncompleteSymbols"   -> 4
      [] step = "ConvertCompile"      -> 5
      [] step = "CommentedOutSymbols" -> 6
      [] step = "Compiling"           -> 7
      [] step = "CompileComplete"     -> 8
      [] step = "ProgramCompilation"  -> 9
      [] OTHER                        -> 10

\* C33: the steps Compile has entered are in the order Operation Complete,
\* foreground, build command, Incomplete Symbols, Convert/Compile, Commented
\* out Symbols, Compiling, Compile Complete, Program Compilation, close and
\* Confirmation, none of them twice; and while a wait is in progress the
\* step that called it is the last one entered.
C33_FixedStepOrder ==
    /\ \A i, j \in 1..Len(comp.steps) :
          i < j => /\ StepRank(comp.steps[i]) <= StepRank(comp.steps[j])
                   /\ comp.steps[i] # comp.steps[j]
                   /\ StepRank(comp.steps[i]) = StepRank(comp.steps[j])
                         => StepRank(comp.steps[i]) = 10
    /\ (wPc # "idle" /\ comp.pc \in WaitSteps) => LastStep = comp.pc

\* C35: when Compile has returned a result without errors and no error, it
\* has found the Compile Complete dialog in this run and the error count it
\* read from the dialog is zero.
C35_SuccessNeedsCompileComplete ==
    (Returned /\ ShapeSuccess(comp.ret)) =>
        /\ comp.compileCompleteHwnd # 0
        /\ ReportedCounts.e = 0

\* C36: once Compile has read a count that is not zero from the Compile
\* Complete dialog, a missing Program Compilation dialog does not make the
\* run fatal: Compile never returns the compilation-timeout error, and when
\* it waits for Program Compilation the timeout of that wait can end the
\* wait.
C36_ProgramCompilationMissTolerated ==
    (comp.compileCompleteHwnd # 0 /\ ReportedCounts # NoStats) =>
        /\ Returned => comp.ret.err # ErrCompileTimeout
        /\ (comp.pc = "ProgramCompilation" /\ wPc = "block") => ENABLED WaitTimeout

\* C37: the handle of the main window is sent at most one close request in
\* a run: Cleanup does not ask the window to close once Compile has asked
\* it to.
C37_CleanupClosesOnlyOpenWindow ==
    ctx.hwnd # 0 => CloseCount(ctx.hwnd) <= 1

\* Compile waits for the Confirmation dialog on the channel
AwaitsConfirmation ==
    \/ comp.pc = "PostEvents"
    \/ comp.pc = "Confirmation" /\ wPc = "block"

\* C38: when Compile waits for the Confirmation dialog and takes from the
\* channel the event of a window with another title, it goes on waiting:
\* it does not return, and it sends no close request.
C38_ConfirmationWaitSkipsOthers ==
    [][ ( /\ AwaitsConfirmation
          /\ Len(MonitorCh) > 0
          /\ MonitorCh' = Tail(MonitorCh)
          /\ Head(MonitorCh).Title # "Confirmation" )
        => ( /\ comp'.pc = comp.pc
             /\ wPc' = wPc
             /\ closeReqs' = closeReqs ) ]_vars

\* C39: an event WaitOnMonitor returns is the event of a window of
\* smpwin.exe, whether the monitor filters on its pid or was started with
\* pid 0.
C39_ReturnedEventsOfTarget ==
    wRet.found => wRet.ev.Pid = TargetPid

\* C40: a call of WaitOnMonitor returns not-found only from its select, by
\* the timer, and the channel exists whenever a call is in progress or has
\* returned: no call returns at once for want of the channel.
C40_NotFoundOnlyByTimer ==
    /\ [][ (wPc # "ret" /\ wPc' = "ret" /\ ~wRet'.found) => wPc = "block" ]_vars
    /\ [](wPc # "idle" => chInit)

(***************************************************************************)
(* SpecStat: ParseStatLine applied to a line of the Compile Complete text. *)
(* A line is a sequence of characters; the letters W and E stand for the   *)
(* words of a label, so that <<"W">> is one label, <<"E">> another and     *)
(* <<"W", "E">> a label that has the first as a proper prefix.             *)
(***************************************************************************)
MaxLine == 5

Chars == {"W", "E", " ", ":", "0", "7"}

Labels == {<<"W">>, <<"E">>, <<"W", "E">>}

IsSpace(c) == c = " "

IsDigit(c) == c \in {"0", "7"}

DigitValue(c) == IF c = "7" THEN 7 ELSE 0

\* first position from i on that holds no white space (\s*)
RECURSIVE SkipSpace(_, _)
SkipSpace(line, i) ==
    IF i <= Len(line) /\ IsSpace(line[i]) THEN SkipSpace(line, i + 1) ELSE i

\* first position from i on that holds no digit (\d+ is greedy)
RECURSIVE SkipDigits(_, _)
SkipDigits(line, i) ==
    IF i <= Len(line) /\ IsDigit(line[i]) THEN SkipDigits(line, i + 1) ELSE i

\* fmt.Sscanf(matches[1], "%d", &n)
RECURSIVE Sscanf(_)
Sscanf(digits) ==
    IF digits = <<>> THEN 0
    ELSE 10 * Sscanf(SubSeq(digits, 1, Len(digits) - 1)) + DigitValue(digits[Len(digits)])

NoMatch == [n |-> 0, ok |-> FALSE]

\* a parse that wants the colon right after the label
ParseStatLineNoSpace(line, prefix) ==
    LET colon == Len(prefix) + 1
        from == SkipSpace(line, colon + 1)
        to == SkipDigits(line, from)
    IN  IF /\ Len(line) >= Len(prefix)
           /\ SubSeq(line, 1, Len(prefix)) = prefix
           /\ colon <= Len(line)
           /\ line[colon] = ":"
           /\ to > from
        THEN [n |-> Sscanf(SubSeq(line, from, to - 1)), ok |-> TRUE]
        ELSE NoMatch

\* the pattern "^" + QuoteMeta(prefix) + `\s*:\s*(\d+)`, FindStringSubmatch
\* and Sscanf of the group
ParseStatLine(line, prefix) ==
    LET colon == SkipSpace(line, Len(prefix) + 1)
        from == SkipSpace(line, colon + 1)
        to == SkipDigits(line, from)
    IN  IF /\ Len(line) >= Len(prefix)
           /\ SubSeq(line, 1, Len(prefix)) = prefix
           /\ colon <= Len(line)
           /\ line[colon] = ":"
           /\ to > from
        THEN [n |-> Sscanf(SubSeq(line, from, to - 1)), ok |-> TRUE]
        ELSE NoMatch

IdleStat(prefix) == [pc |-> "line", line |-> <<>>, prefix |-> prefix, ret |-> NoMatch]

InitStat ==
    /\ BusInit
    /\ variant = "stat"
    /\ procAlive = FALSE
    /\ shown = {}
    /\ closeReqs = <<>>
    /\ ctx = IdleCtx
    /\ sig = IdleSig
    /\ \E prefix \in Labels : comp = IdleStat(prefix)

\* the dialog text has one more character on the line
StatLineGrows ==
    /\ comp.pc = "line"
    /\ Len(comp.line) < MaxLine
    /\ \E c \in Chars : comp' = [comp EXCEPT !.line = Append(@, c)]
    /\ UNCHANGED <<busVars, variant, sig, procAlive, shown, closeReqs, ctx>>

\* if n, ok := ParseStatLine(line, "Program Warnings"); ok { ... }
StatParse ==
    /\ comp.pc = "line"
    /\ comp' = [comp EXCEPT !.pc = "parsed",
                            !.ret = ParseStatLine(comp.line, comp.prefix)]
    /\ UNCHANGED <<busVars, variant, sig, procAlive, shown, closeReqs, ctx>>

NextStat ==
    \/ StatLineGrows
    \/ StatParse

SpecStat == InitStat /\ [][NextStat]_vars

\* sequences of n characters that are all white space
Spaces(n) == [i \in 1..n |-> " "]

\* the line begins with the label, optional white space, a colon, optional
\* white space and the decimal integer whose digits are ds
BeginsWithStat(line, label, ds) ==
    \E a, b \in 0..Len(line) :
        LET head == label \o Spaces(a) \o <<":">> \o Spaces(b) \o ds
        IN  /\ Len(ds) > 0
            /\ \A i \in 1..Len(ds) : IsDigit(ds[i])
            /\ Len(head) <= Len(line)
            /\ SubSeq(line, 1, Len(head)) = head
            /\ Len(head) < Len(line) => ~IsDigit(line[Len(head) + 1])

\* the digit sequences a line can hold
DigitRuns(line) ==
    {SubSeq(line, i, j) : i \in 1..Len(line), j \in 1..Len(line)}

\* the decimal value of a digit sequence
RECURSIVE Decimal(_)
Decimal(ds) ==
    IF ds = <<>> THEN 0 ELSE DigitValue(Head(ds)) * (10 ^ (Len(ds) - 1)) + Decimal(Tail(ds))

\* C32: ParseStatLine returns (n, true) when the line begins with the
\* label, optional white space, a colon, optional white space and the
\* decimal integer n, and (0, false) for every other line; the label
\* <<"W">> on the line W, colon, space, 7 gives (7, true).
C32_ParseStatLineExact ==
    comp.pc = "parsed" =>
        LET runs == {ds \in DigitRuns(comp.line) : BeginsWithStat(comp.line, comp.prefix, ds)}
        IN  /\ runs # {} => \E ds \in runs : comp.ret = [n |-> Decimal(ds), ok |-> TRUE]
            /\ runs = {} => comp.ret = [n |-> 0, ok |-> FALSE]
            /\ (comp.line = <<"W", ":", " ", "7">> /\ comp.prefix = <<"W">>)
                  => comp.ret = [n |-> 7, ok |-> TRUE]

\* a line with white space before the colon and two digits gave the
\* number 70
C32_Witness ==
    /\ comp.pc = "parsed"
    /\ comp.line = <<"W", " ", ":", "7", "0">>
    /\ comp.prefix = <<"W">>
    /\ comp.ret = [n |-> 70, ok |-> TRUE]

(***************************************************************************)
(* SpecLock: the monitor and WaitOnMonitor with the Lock and Unlock calls  *)
(* of recentMu as steps of their own.  The other specifications take       *)
(* Lock, the work and Unlock as one step.                                  *)
(***************************************************************************)
lockFrame == <<visible, MonitorCh, chInit, seen, monPid, mSnap, mEv, pushed, wMatch>>

\* recentMu.Lock() of the monitor: blocks while the mutex is held
MonLock ==
    /\ mPc = "append"
    /\ recentMu = "free"
    /\ recentMu' = "monitor"
    /\ mPc' = "locked"
    /\ UNCHANGED <<lockFrame, recentEvents, appended, wPc, wRet>>
    /\ UNCHANGED orchVars

\* recentEvents = append(recentEvents, ev) and the trim to the newest 256
MonAppendLocked ==
    /\ mPc = "locked"
    /\ recentEvents' = AppendRecent(recentEvents, mEv)
    /\ appended' = [appended EXCEPT ![mEv.Hwnd] = @ + 1]
    /\ mPc' = "unlock"
    /\ UNCHANGED <<lockFrame, recentMu, wPc, wRet>>
    /\ UNCHANGED orchVars

\* recentMu.Unlock() of the monitor, before the select on MonitorCh
MonUnlock ==
    /\ mPc = "unlock"
    /\ recentMu' = "free"
    /\ mPc' = "send"
    /\ UNCHANGED <<lockFrame, recentEvents, appended, wPc, wRet>>
    /\ UNCHANGED orchVars

\* a WaitOnMonitor that goes into its scan without taking the mutex
WaitLockSkipped ==
    /\ wPc = "scan"
    /\ wPc' = "locked"
    /\ UNCHANGED <<lockFrame, recentMu, recentEvents, appended, mPc, wRet>>
    /\ UNCHANGED orchVars

\* recentMu.Lock() of WaitOnMonitor
WaitLock ==
    /\ wPc = "scan"
    /\ recentMu = "free"
    /\ recentMu' = "waiter"
    /\ wPc' = "locked"
    /\ UNCHANGED <<lockFrame, recentEvents, appended, mPc, wRet>>
    /\ UNCHANGED orchVars

\* the loop over recentEvents, newest first, with the matchers
WaitScanLocked ==
    /\ wPc = "locked"
    /\ LET ev == ScanRecent(recentEvents, wMatch, Len(recentEvents))
       IN  wRet' = IF ev # NoEvent THEN [found |-> TRUE, ev |-> ev] ELSE wRet
    /\ wPc' = "unlock"
    /\ UNCHANGED <<lockFrame, recentMu, recentEvents, appended, mPc>>
    /\ UNCHANGED orchVars

\* recentMu.Unlock() of WaitOnMonitor: then return ev, true, or the timer
\* and the select
WaitUnlock ==
    /\ wPc = "unlock"
    /\ recentMu' = "free"
    /\ wPc' = IF wRet.found THEN "ret" ELSE "block"
    /\ UNCHANGED <<lockFrame, recentEvents, appended, mPc, wRet>>
    /\ UNCHANGED orchVars

InitLock == BusInit /\ variant = "lock" /\ OrchInit

NextLock ==
    \/ MonStart
    \/ MonTick
    \/ MonScan
    \/ MonLock
    \/ MonAppendLocked
    \/ MonUnlock
    \/ MonSend
    \/ BusCall
    \/ WaitLock
    \/ WaitScanLocked
    \/ WaitUnlock
    \/ WaitRecv
    \/ WaitTimeout
    \/ BusReturn
    \/ BusEnvShow
    \/ BusEnvHide

SpecLock == InitLock /\ [][NextLock]_vars

\* C34: the cache is scanned and changed only by the holder of the mutex;
\* the holder is in its scan or its append and nowhere else (not in the
\* select on the channel and the timer, not in the sleep, the enumeration
\* of windows or the send); and the step that follows the one scan or the
\* one append of a holder is its Unlock.
C34_CacheUnderShortLock ==
    /\ [](wPc = "locked" => recentMu = "waiter")
    /\ [](mPc = "locked" => recentMu = "monitor")
    /\ [][ recentEvents' # recentEvents
           => (recentMu = "monitor" /\ recentMu' = "monitor") ]_vars
    /\ [](recentMu = "waiter" => wPc \in {"locked", "unlock"})
    /\ [](recentMu = "monitor" => mPc \in {"locked", "unlock"})
    /\ [][ (wPc = "unlock" /\ wPc' # wPc) => (recentMu = "waiter" /\ recentMu' = "free") ]_vars
    /\ [][ (mPc = "unlock" /\ mPc' # mPc) => (recentMu = "monitor" /\ recentMu' = "free") ]_vars

\* the monitor has an event to append and waits for the mutex, which
\* WaitOnMonitor holds for its scan of a cache that is not empty
C34_Witness ==
    /\ recentMu = "waiter"
    /\ wPc = "locked"
    /\ mPc = "append"
    /\ Len(recentEvents) > 0

====
